---- MODULE Spec2Model ----
(***************************************************************************)
(* A model of the archive ingestion pipeline of context-use:               *)
(* ContextUse.processArchive (src/src/cli.ts), the ETL runner and upload   *)
(* strategy (src/src/core/etl.ts), task discovery, the provider registry,  *)
(* the SQLite backend (src/src/db/sqlite.ts, schema.sql) and the disk blob *)
(* store.                                                                   *)
(*                                                                         *)
(* Strings that the code compares or concatenates (paths, blob keys) are   *)
(* sequences of tokens: "/" is a token of its own, every other token is a  *)
(* run of characters without a separator. Timestamps written by            *)
(* new Date() (created_at, updated_at) are left out of the rows: no        *)
(* branch of the code reads them.                                          *)
(***************************************************************************)
EXTENDS Integers, Sequences, FiniteSets, TLC

(***************************************************************************)
(* Bounds of the model.                                                    *)
(***************************************************************************)
\* number of processArchive calls made on one ContextUse instance
MaxRuns == 2

\* number of statements of the longest function passed to transaction()
MaxWrites == 2

\* the largest first batch of a two-batch regrouping
MaxSplit == 2

\* the most records of a sequence that is regrouped into batches
MaxBatches == 4

\* the longest message content
MaxContent == 102

\* the most conversations of an export that is parsed step by step
MaxConversations == 12

\* number of messages of the largest conversations.json of the model: more
\* than one chunk of CHUNK_SIZE records
BigCount == 501

(***************************************************************************)
(* Generic helpers.                                                        *)
(***************************************************************************)
Range(s) == {s[i] : i \in 1..Len(s)}

RECURSIVE SetToSeq(_)
SetToSeq(S) == IF S = {} THEN <<>>
               ELSE LET x == CHOOSE y \in S : TRUE
                    IN <<x>> \o SetToSeq(S \ {x})

RECURSIVE SumLen(_)
\* batches.reduce((s, b) => s + b.length, 0)
SumLen(batches) == IF batches = <<>> THEN 0
                   ELSE Len(Head(batches)) + SumLen(Tail(batches))

RECURSIVE Flatten(_)
Flatten(batches) == IF batches = <<>> THEN <<>>
                    ELSE Head(batches) \o Flatten(Tail(batches))

IsPrefixOf(p, s) == Len(p) <= Len(s) /\ SubSeq(s, 1, Len(p)) = p

IsSuffixOf(p, s) == Len(p) <= Len(s) /\ SubSeq(s, Len(s) - Len(p) + 1, Len(s)) = p

(***************************************************************************)
(* Paths. posix.normalize of node:path, on token sequences.                *)
(***************************************************************************)
SL == "/"

RECURSIVE SplitPath(_, _, _)
\* the segments of a path: the runs of tokens between separators
SplitPath(p, cur, acc) ==
    IF p = <<>> THEN Append(acc, cur)
    ELSE IF Head(p) = SL THEN SplitPath(Tail(p), <<>>, Append(acc, cur))
    ELSE SplitPath(Tail(p), Append(cur, Head(p)), acc)

RECURSIVE NormalizeSegments(_, _, _)
\* normalizeString: drops empty and "." segments, resolves ".." against the
\* segment before it, keeps a leading ".." when allowAboveRoot
NormalizeSegments(segs, out, allowAboveRoot) ==
    IF segs = <<>> THEN out
    ELSE LET s == Head(segs)
             rest == Tail(segs)
         IN IF s = <<>> \/ s = <<".">>
            THEN NormalizeSegments(rest, out, allowAboveRoot)
            ELSE IF s = <<"..">>
            THEN IF out # <<>> /\ out[Len(out)] # <<"..">>
                 THEN NormalizeSegments(rest, SubSeq(out, 1, Len(out) - 1), allowAboveRoot)
                 ELSE IF allowAboveRoot
                      THEN NormalizeSegments(rest, Append(out, s), allowAboveRoot)
                      ELSE NormalizeSegments(rest, out, allowAboveRoot)
            ELSE NormalizeSegments(rest, Append(out, s), allowAboveRoot)

RECURSIVE JoinSegments(_)
JoinSegments(segs) ==
    IF segs = <<>> THEN <<>>
    ELSE IF Len(segs) = 1 THEN Head(segs)
    ELSE Head(segs) \o <<SL>> \o JoinSegments(Tail(segs))

\* posix.normalize(path)
Normalize(p) ==
    IF p = <<>> THEN <<".">>
    ELSE LET isAbsolute == Head(p) = SL
             trailingSeparator == p[Len(p)] = SL
             segs == NormalizeSegments(SplitPath(p, <<>>, <<>>), <<>>, ~isAbsolute)
             body == JoinSegments(segs)
         IN IF body = <<>>
            THEN IF isAbsolute THEN <<SL>>
                 ELSE IF trailingSeparator THEN <<".", SL>> ELSE <<".">>
            ELSE (IF isAbsolute THEN <<SL>> ELSE <<>>) \o body
                 \o (IF trailingSeparator THEN <<SL>> ELSE <<>>)

(***************************************************************************)
(* Optional values: an absent, null or undefined field is <<>>, a present  *)
(* one is <<v>>.                                                           *)
(***************************************************************************)
None == <<>>

Some(v) == <<v>>

(***************************************************************************)
(* Provider registry (src/src/providers/registry.ts) and the manifest maps *)
(* of the two orchestration strategies. A MANIFEST_MAP is the sequence of  *)
(* its entries in insertion order, as Object.entries yields them.          *)
(***************************************************************************)
CONVERSATIONS_JSON == <<"conversations.json">>

STORIES_JSON == <<"your_instagram_activity", SL, "media", SL, "stories.json">>

REELS_JSON == <<"your_instagram_activity", SL, "media", SL, "reels.json">>

ChatGPTManifestMap ==
    << [pattern |-> CONVERSATIONS_JSON, interactionType |-> "chatgpt_conversations"] >>

InstagramManifestMap ==
    << [pattern |-> STORIES_JSON, interactionType |-> "instagram_stories"],
       [pattern |-> REELS_JSON, interactionType |-> "instagram_reels"] >>

\* a registry that has no strategies for the reels of Instagram
PROVIDER_REGISTRY_NoReels ==
    [p \in {"chatgpt", "instagram"} |->
        IF p = "chatgpt"
        THEN [orchestration |-> Some(ChatGPTManifestMap),
              interactionTypes |-> {"chatgpt_conversations"}]
        ELSE [orchestration |-> Some(InstagramManifestMap),
              interactionTypes |-> {"instagram_stories"}]]

\* the own keys of PROVIDER_REGISTRY
PROVIDER_REGISTRY ==
    [p \in {"chatgpt", "instagram"} |->
        IF p = "chatgpt"
        THEN [orchestration |-> Some(ChatGPTManifestMap),
              interactionTypes |-> {"chatgpt_conversations"}]
        ELSE [orchestration |-> Some(InstagramManifestMap),
              interactionTypes |-> {"instagram_stories", "instagram_reels"}]]

\* PROVIDER_REGISTRY is an object literal: the names it inherits from
\* Object.prototype answer to `in` and to a property read as well
ObjectPrototypeKeys == {"toString", "constructor"}

\* `provider in PROVIDER_REGISTRY`: the `in` operator walks the prototype chain
InRegistry(provider) ==
    provider \in DOMAIN PROVIDER_REGISTRY \/ provider \in ObjectPrototypeKeys

\* getProviderConfig: PROVIDER_REGISTRY[provider]; an inherited member is a
\* truthy value whose .orchestration and .interactionTypes are undefined
getProviderConfig(provider) ==
    IF provider \in DOMAIN PROVIDER_REGISTRY
    THEN PROVIDER_REGISTRY[provider]
    ELSE [orchestration |-> None, interactionTypes |-> {}]

(***************************************************************************)
(* Task discovery (OrchestrationStrategy.discoverTasks).                   *)
(***************************************************************************)
\* `${archiveId}/`
ArchivePrefix(archiveId) == <<archiveId, SL>>

\* a discovery that accepts every key ending with the pattern
RECURSIVE discoverTasksFrom_EndsWith(_, _, _)
discoverTasksFrom_EndsWith(entries, prefix, files) ==
    IF entries = <<>> THEN <<>>
    ELSE LET e == Head(entries)
             matching == SelectSeq(files, LAMBDA f : IsPrefixOf(prefix, f)
                                                     /\ IsSuffixOf(e.pattern, f))
             rest == discoverTasksFrom_EndsWith(Tail(entries), prefix, files)
         IN IF Len(matching) > 0
            THEN <<[interactionType |-> e.interactionType, filenames |-> matching]>> \o rest
            ELSE rest

RECURSIVE discoverTasksFrom(_, _, _)
discoverTasksFrom(entries, prefix, files) ==
    IF entries = <<>> THEN <<>>
    ELSE LET e == Head(entries)
             expected == prefix \o e.pattern
             matching == SelectSeq(files, LAMBDA f : f = expected)
             rest == discoverTasksFrom(Tail(entries), prefix, files)
         IN IF Len(matching) > 0
            THEN <<[interactionType |-> e.interactionType, filenames |-> matching]>> \o rest
            ELSE rest

discoverTasks(manifestMap, archiveId, files) ==
    discoverTasksFrom(manifestMap, ArchivePrefix(archiveId), files)

(***************************************************************************)
(* Blob store (DiskStorage): a function from the stored path, relative to  *)
(* basePath, to the bytes written there.                                   *)
(***************************************************************************)
\* DiskStorage.resolve: join(basePath, key), relative to basePath
StoragePath(key) == Normalize(key)

\* DiskStorage.write
StorageWrite(store, key, data) ==
    LET p == StoragePath(key)
    IN [q \in DOMAIN store \cup {p} |-> IF q = p THEN data ELSE store[q]]

\* DiskStorage.list: the prefix itself when it is a file, nothing when it does
\* not exist, else every file below the directory
StorageList(store, prefix) ==
    LET p == StoragePath(prefix)
    IN IF p \in DOMAIN store THEN <<prefix>>
       ELSE SetToSeq({q \in DOMAIN store : IsPrefixOf(p \o <<SL>>, q)})

(***************************************************************************)
(* Timestamps. A raw timestamp n of the model stands for the number        *)
(* n * 10^9 of the source file; an instant is counted in units of 10^6     *)
(* seconds. In these units 4_102_444_800 lies between 4 and 5, so          *)
(* `val > MAX_SECONDS_EPOCH` is n > 4, exactly, and a millisecond value    *)
(* divided by 1000 is n * 10^6 seconds.                                    *)
(***************************************************************************)
MAX_SECONDS_EPOCH_G == 4

\* the largest time value of a Date, 8.64e15 ms, in units of 10^6 seconds
MaxDateValue == 8640 * 1000

\* new Date(seconds * 1000): an instant, or Invalid Date out of range
MakeDate(megaSeconds) ==
    [valid |-> megaSeconds <= MaxDateValue /\ megaSeconds >= -MaxDateValue,
     at |-> megaSeconds]

\* safeTimestamp of chatgpt/conversations.ts
safeTimestamp(ts) ==
    IF ts = None THEN None
    ELSE LET val == ts[1]
         IN Some(MakeDate(IF val > MAX_SECONDS_EPOCH_G THEN val ELSE val * 1000))

(***************************************************************************)
(* Payloads (src/src/payload/models.ts). A payload is the dict toDict      *)
(* returns: undefined and null members are absent (None).                  *)
(***************************************************************************)
CHATGPT_APPLICATION == [type |-> "Application", name |-> "assistant"]

\* a JavaScript truthiness test of an optional string
Truthy(opt) == opt # None /\ opt[1] # ""

makeCollection(name, id) == [type |-> "Collection", name |-> name, id |-> id]

makeTextMessage(content, context) ==
    [type |-> "Note", fibre_kind |-> "TextMessage", content |-> content,
     context |-> context]

makeSendMessage(object, target, published) ==
    [type |-> "Create", fibre_kind |-> "SendMessage", object |-> object,
     target |-> Some(target), actor |-> None, published |-> published]

makeReceiveMessage(object, actor, published) ==
    [type |-> "Create", fibre_kind |-> "ReceiveMessage", object |-> object,
     target |-> None, actor |-> Some(actor), published |-> published]

\* makeImage / makeVideo: `if (opts.name)` drops an empty name as well
makeMedia(mediaType, url, name, published) ==
    [type |-> mediaType, url |-> url,
     name |-> IF name = "" THEN None ELSE Some(name),
     published |-> published]

makeCreateObject(object, published) ==
    [type |-> "Create", fibre_kind |-> "Create", object |-> object,
     published |-> published]

\* Previews: a text is the sequence of its pieces. The contents of the model
\* are at most 100 characters long, so getTextMessagePreview truncates none.
\* a preview that embeds the whole content
getTextMessagePreview_Untruncated(msg) == <<"message \"", msg.content, "\"">>

\* content.length > 100 ? content.slice(0, 100) + "..." : content
getTextMessagePreview(msg) ==
    LET content == msg.content
        truncated == IF Len(content) > 100
                     THEN SubSeq(content, 1, 100) \o "..."
                     ELSE content
    IN <<"message \"", truncated, "\"">>

\* the tags of the payload union FibreByType
FibreKinds == {"TextMessage", "Image", "Video", "Collection", "Create",
               "SendMessage", "ReceiveMessage"}

\* makeThreadPayload: `return data as ThreadPayload`, a cast and no check
makeThreadPayload(data) == [threw |-> FALSE, value |-> data]

\* getObjectPreview: makeImage and makeVideo set no fibre_kind
getObjectPreview(obj) ==
    IF "fibre_kind" \in DOMAIN obj /\ obj.fibre_kind = "TextMessage"
    THEN getTextMessagePreview(obj)
    ELSE <<"object">>

\* `if (provider) s += ...`
OnProvider(provider) == IF provider # "" THEN <<" on ", provider>> ELSE <<>>

getSendMessagePreview(payload, provider) ==
    <<"Sent ">> \o getObjectPreview(payload.object)
    \o <<" to ", IF payload.target # None THEN payload.target[1].name ELSE "unknown">>
    \o OnProvider(provider)

getReceiveMessagePreview(payload, provider) ==
    <<"Received ">> \o getObjectPreview(payload.object)
    \o <<" from ", IF payload.actor # None THEN payload.actor[1].name ELSE "unknown">>
    \o OnProvider(provider)

\* String.prototype.toLowerCase on the @type of a media object
toLowerCase(type) ==
    CASE type = "Video" -> "video"
      [] type = "Image" -> "image"
      [] OTHER -> type

\* a preview that shows the name of the object, which may be missing
getCreateObjectPreview_NameOnly(payload, provider) ==
    IF payload.object.name = None THEN <<"">> ELSE <<payload.object.name[1]>>

getCreateObjectPreview(payload, provider) ==
    <<"Posted ", toLowerCase(payload.object.type)>> \o OnProvider(provider)

\* uniqueKeySuffix: the first 16 hex characters of the SHA-256 of the
\* canonical JSON of the payload. The digest is taken to be free of
\* collisions: it is the canonical payload itself.
uniqueKeySuffix(dict) == dict

(***************************************************************************)
(* Payload objects as the callers of models.ts write them: an object is    *)
(* the sequence of its members <<key, value>> in insertion order, with     *)
(* null and undefined members present. The payload types hold strings,     *)
(* objects and arrays of strings or objects.                               *)
(***************************************************************************)
Str(s) == [t |-> "string", s |-> s]

Null == [t |-> "null"]

Undefined == [t |-> "undefined"]

Obj(members) == [t |-> "object", m |-> members]

Arr(elements) == [t |-> "array", e |-> elements]

\* obj[k] of an object that has the key k
Member(obj, k) == obj.m[CHOOSE i \in 1..Len(obj.m) : obj.m[i][1] = k][2]

\* the keys of the payloads below, in the order of Array.prototype.sort
KeyOrder == <<"items", "name", "object", "url">>

\* Object.keys(obj).sort()
SortedKeys(obj) ==
    SelectSeq(KeyOrder, LAMBDA k : \E i \in 1..Len(obj.m) : obj.m[i][1] = k)

\* a sortedClean that keeps the insertion order of the keys
RECURSIVE sortedClean_Unsorted(_)
sortedClean_Unsorted(obj) ==
    IF obj.t = "array"
    THEN Arr([i \in 1..Len(obj.e) |-> sortedClean_Unsorted(obj.e[i])])
    ELSE IF obj.t = "object"
    THEN LET kept == SelectSeq(obj.m, LAMBDA kv : kv[2].t \notin {"undefined", "null"})
         IN Obj([i \in 1..Len(kept) |-> <<kept[i][1], sortedClean_Unsorted(kept[i][2])>>])
    ELSE obj

\* sortedClean: arrays are mapped, the members of an object that are
\* neither undefined nor null are kept in the order of the sorted keys,
\* anything else is returned as it is
RECURSIVE sortedClean(_)
sortedClean(obj) ==
    IF obj.t = "array"
    THEN Arr([i \in 1..Len(obj.e) |-> sortedClean(obj.e[i])])
    ELSE IF obj.t = "object"
    THEN LET kept == SelectSeq(SortedKeys(obj),
                               LAMBDA k : Member(obj, k).t \notin {"undefined", "null"})
         IN Obj([i \in 1..Len(kept) |-> <<kept[i], sortedClean(Member(obj, kept[i]))>>])
    ELSE obj

\* toDict on a payload object
toDict(payload) == sortedClean(payload)

\* the texts of a list, with a comma between two of them
RECURSIVE JoinComma(_)
JoinComma(texts) ==
    IF texts = <<>> THEN <<>>
    ELSE IF Len(texts) = 1 THEN texts[1]
    ELSE texts[1] \o <<",">> \o JoinComma(Tail(texts))

\* JSON.stringify, a text being the sequence of its tokens: a member whose
\* value is undefined is left out, an element that is undefined is null
RECURSIVE JSONStringify(_)
JSONStringify(v) ==
    CASE v.t = "string" -> <<"\"", v.s, "\"">>
      [] v.t = "array" ->
            <<"[">> \o JoinComma([i \in 1..Len(v.e) |-> JSONStringify(v.e[i])]) \o <<"]">>
      [] v.t = "object" ->
            LET kept == SelectSeq(v.m, LAMBDA kv : kv[2].t # "undefined")
            IN <<"{">>
               \o JoinComma([i \in 1..Len(kept) |->
                                <<"\"", kept[i][1], "\"", ":">> \o JSONStringify(kept[i][2])])
               \o <<"}">>
      [] OTHER -> <<"null">>

\* createHash("sha256").update(payloadStr).digest("hex").slice(0, 16); the
\* digest is taken to be free of collisions: it names the text it is of
sha256Hex16(payloadStr) == [sha256 |-> payloadStr]

\* the text uniqueKeySuffix hashes: JSON.stringify(sortedClean(payload))
payloadStr(payload) == JSONStringify(sortedClean(payload))

\* uniqueKeySuffix on a payload object
uniqueKeySuffixOf(payload) == sha256Hex16(payloadStr(payload))

(***************************************************************************)
(* ChatGPT conversations: extraction and transform.                        *)
(***************************************************************************)
CHUNK_SIZE == 500

\* chunk.push(record); if (chunk.length >= CHUNK_SIZE) batches.push(chunk),
\* and at the end of the stream the chunk that is left, when not empty:
\* batch b holds the records (b - 1) * CHUNK_SIZE + 1 .. b * CHUNK_SIZE
Chunked(records) ==
    LET n == Len(records)
        count == (n + CHUNK_SIZE - 1) \div CHUNK_SIZE
    IN [b \in 1..count |->
           SubSeq(records, (b - 1) * CHUNK_SIZE + 1,
                  IF b * CHUNK_SIZE < n THEN b * CHUNK_SIZE ELSE n)]

\* the strings whose trim() is empty
Blank == {"", " "}

\* a filter that lets the messages of role system through
ChatGPTAccepts_KeepsSystem(m) ==
    /\ m.author # None
    /\ m.content_type = Some("text")
    /\ m.parts0 # None
    /\ m.parts0[1] \notin Blank

\* the filter of the extraction's `data` handler on one mapping item
ChatGPTAccepts(m) ==
    /\ m.author # None
    /\ m.content_type = Some("text")
    /\ m.author[1] # "system"
    /\ m.parts0 # None
    /\ m.parts0[1] \notin Blank

\* the records of one conversation: one per accepted mapping item, in order
ChatGPTRecordsOf(conv, msgs) ==
    LET accepted == SelectSeq(msgs, ChatGPTAccepts)
    IN [i \in 1..Len(accepted) |->
           [role |-> accepted[i].author[1],
            content |-> accepted[i].parts0[1],
            create_time |-> accepted[i].create_time,
            conversation_id |-> conv.conversation_id,
            conversation_title |-> conv.title,
            source |-> accepted[i]]]

RECURSIVE ChatGPTRecords(_)
ChatGPTRecords(convs) ==
    IF convs = <<>> THEN <<>>
    ELSE ChatGPTRecordsOf(Head(convs), Head(convs).mapping) \o ChatGPTRecords(Tail(convs))

\* ChatGPTConversationsExtractionStrategy.extract on the bytes of one file:
\* a parse error of the JSON stream rejects, else the chunked records
ChatGPTExtract(data) ==
    IF data.format # "chatgpt"
    THEN [ok |-> FALSE, batches |-> <<>>, cause |-> "Error: Parser cannot parse input"]
    ELSE [ok |-> TRUE, batches |-> Chunked(ChatGPTRecords(data.body)), cause |-> ""]

\* ChatGPTConversationsTransformStrategy.buildPayload; None is the null it
\* returns for a role it does not map
ChatGPTBuildPayload(record) ==
    LET context == IF Truthy(record.conversation_title) \/ Truthy(record.conversation_id)
                   THEN Some(makeCollection(
                            record.conversation_title,
                            IF Truthy(record.conversation_id)
                            THEN Some(<<"https://chatgpt.com/c/", record.conversation_id[1]>>)
                            ELSE None))
                   ELSE None
        message == makeTextMessage(record.content, context)
        published == safeTimestamp(record.create_time)
    IN CASE record.role = "user" ->
               Some(makeSendMessage(message, CHATGPT_APPLICATION, published))
         [] record.role = "assistant" ->
               Some(makeReceiveMessage(message, CHATGPT_APPLICATION, published))
         [] OTHER -> None

\* published?.toISOString() throws a RangeError on an Invalid Date
ChatGPTRecordThrows(record) ==
    LET published == safeTimestamp(record.create_time)
    IN published # None /\ ~published[1].valid

ChatGPTRow(task, record) ==
    LET payload == ChatGPTBuildPayload(record)[1]
    IN [uniqueKey |-> <<"chatgpt_conversations", uniqueKeySuffix(payload)>>,
        provider |-> task.provider,
        interactionType |-> task.interactionType,
        preview |-> IF payload.fibre_kind = "SendMessage"
                    THEN getSendMessagePreview(payload, "ChatGPT")
                    ELSE getReceiveMessagePreview(payload, "ChatGPT"),
        payload |-> payload,
        \* safeTimestamp(createTime) ?? new Date(): None is the time of the call
        asat |-> safeTimestamp(record.create_time),
        assetUri |-> None]

\* the rows of one batch: `if (!payload) continue` skips a record
ChatGPTTransformBatch(task, batch) ==
    LET mapped == SelectSeq(batch, LAMBDA record : ChatGPTBuildPayload(record) # None)
    IN [i \in 1..Len(mapped) |-> ChatGPTRow(task, mapped[i])]

\* a transform that pushes the rows of every batch, empty or not
ChatGPTTransform_KeepsEmpty(task, batches) ==
    IF \E i \in 1..Len(batches) : \E j \in 1..Len(batches[i]) :
           ChatGPTRecordThrows(batches[i][j])
    THEN [ok |-> FALSE, batches |-> <<>>, cause |-> "RangeError"]
    ELSE [ok |-> TRUE,
          batches |-> [i \in 1..Len(batches) |->
                          ChatGPTTransformBatch(task, batches[i])],
          cause |-> ""]

\* ChatGPTConversationsTransformStrategy.transform
ChatGPTTransform(task, batches) ==
    IF \E i \in 1..Len(batches) : \E j \in 1..Len(batches[i]) :
           ChatGPTRecordThrows(batches[i][j])
    THEN [ok |-> FALSE, batches |-> <<>>, cause |-> "RangeError"]
    ELSE [ok |-> TRUE,
          batches |-> SelectSeq([i \in 1..Len(batches) |->
                                    ChatGPTTransformBatch(task, batches[i])],
                                LAMBDA rows : Len(rows) > 0),
          cause |-> ""]

(***************************************************************************)
(* Instagram stories and reels (src/src/providers/instagram/media.ts).     *)
(* A uri is a token sequence whose last token is the file extension.       *)
(***************************************************************************)
VideoExtensions == {".mp4", ".mov", ".avi", ".webm", ".srt"}

inferMediaType(uri) ==
    IF uri # <<>> /\ uri[Len(uri)] \in VideoExtensions THEN "Video" ELSE "Image"

itemsToRecords(items, sourceFile) ==
    [i \in 1..Len(items) |->
        [uri |-> items[i].uri,
         creation_timestamp |-> items[i].creation_timestamp,
         title |-> items[i].title,
         media_type |-> inferMediaType(items[i].uri),
         source |-> [file |-> sourceFile, uri |-> items[i].uri]]]

\* JSON.parse throws a SyntaxError on bytes that are no JSON, the manifest
\* schema's parse a ZodError on JSON of another shape
ParseCause(data) == IF data.format = "corrupt" THEN "SyntaxError" ELSE "ZodError"

\* InstagramStoriesExtractionStrategy.extract
StoriesExtract(data, key) ==
    IF data.format # "stories"
    THEN [ok |-> FALSE, batches |-> <<>>, cause |-> ParseCause(data)]
    ELSE LET records == itemsToRecords(data.body, key)
         IN [ok |-> TRUE,
             batches |-> IF Len(records) = 0 THEN <<>> ELSE <<records>>,
             cause |-> ""]

\* InstagramReelsExtractionStrategy.extract: the media of every entry
ReelsExtract(data, key) ==
    IF data.format # "reels"
    THEN [ok |-> FALSE, batches |-> <<>>, cause |-> ParseCause(data)]
    ELSE LET records == itemsToRecords(Flatten(data.body), key)
         IN [ok |-> TRUE,
             batches |-> IF Len(records) = 0 THEN <<>> ELSE <<records>>,
             cause |-> ""]

\* InstagramMediaTransformStrategy.buildPayload
InstagramBuildPayload(record) ==
    LET published == Some(MakeDate(record.creation_timestamp * 1000))
    IN makeCreateObject(
           makeMedia(record.media_type, record.uri, record.title, published),
           published)

\* new Date(ts * 1000).toISOString() throws a RangeError on an Invalid Date
InstagramRecordThrows(record) == ~MakeDate(record.creation_timestamp * 1000).valid

InstagramRow(task, record) ==
    LET payload == InstagramBuildPayload(record)
    IN [uniqueKey |-> <<task.interactionType, uniqueKeySuffix(payload)>>,
        provider |-> task.provider,
        interactionType |-> task.interactionType,
        preview |-> getCreateObjectPreview(payload, task.provider),
        payload |-> payload,
        asat |-> Some(MakeDate(record.creation_timestamp * 1000)),
        assetUri |-> Some(record.uri)]

\* InstagramMediaTransformStrategy.transform
InstagramTransform(task, batches) ==
    IF \E i \in 1..Len(batches) : \E j \in 1..Len(batches[i]) :
           InstagramRecordThrows(batches[i][j])
    THEN [ok |-> FALSE, batches |-> <<>>, cause |-> "RangeError"]
    ELSE [ok |-> TRUE,
          batches |-> SelectSeq([i \in 1..Len(batches) |->
                                    [j \in 1..Len(batches[i]) |->
                                        InstagramRow(task, batches[i][j])]],
                                LAMBDA rows : Len(rows) > 0),
          cause |-> ""]

(***************************************************************************)
(* ETLPipeline.extract and ETLPipeline.transform with the strategies the   *)
(* registry gives for the task's interaction type. A rejected stage is     *)
(* ok = FALSE with the typed error the runner wraps the cause in.          *)
(***************************************************************************)
\* the typed errors of core/exceptions.ts: a name, and a message that holds
\* the stage's prefix and String(err) of the cause
ExtractionFailedException(cause) ==
    [name |-> "ExtractionFailedException", message |-> <<"Extraction failed: ", cause>>]

TransformFailedException(cause) ==
    [name |-> "TransformFailedException", message |-> <<"Transform failed: ", cause>>]

UploadFailedException(cause) ==
    [name |-> "UploadFailedException", message |-> <<"Upload failed: ", cause>>]

\* String(exc) of an Error: its name, ": ", its message
ErrorString(exc) == <<exc.name, ": ">> \o exc.message

\* a runner that lets the strategy's error through as it is
PipelineExtract_Unwrapped(task, store) ==
    LET key == task.filenames[1]
        p == StoragePath(key)
        res == IF p \notin DOMAIN store
               THEN [ok |-> FALSE, batches |-> <<>>, cause |-> "ENOENT"]
               ELSE CASE task.interactionType = "chatgpt_conversations" ->
                            ChatGPTExtract(store[p])
                      [] task.interactionType = "instagram_stories" ->
                            StoriesExtract(store[p], key)
                      [] OTHER -> ReelsExtract(store[p], key)
    IN [ok |-> res.ok, batches |-> res.batches,
        error |-> IF res.ok THEN None
                  ELSE Some([name |-> "Error", message |-> <<"", res.cause>>])]

PipelineExtract(task, store) ==
    LET key == task.filenames[1]
        p == StoragePath(key)
        res == IF p \notin DOMAIN store
               THEN [ok |-> FALSE, batches |-> <<>>, cause |-> "ENOENT"]
               ELSE CASE task.interactionType = "chatgpt_conversations" ->
                            ChatGPTExtract(store[p])
                      [] task.interactionType = "instagram_stories" ->
                            StoriesExtract(store[p], key)
                      [] OTHER -> ReelsExtract(store[p], key)
    IN [ok |-> res.ok, batches |-> res.batches,
        error |-> IF res.ok THEN None ELSE Some(ExtractionFailedException(res.cause))]

PipelineTransform(task, raw) ==
    LET res == IF task.interactionType = "chatgpt_conversations"
               THEN ChatGPTTransform(task, raw)
               ELSE InstagramTransform(task, raw)
    IN [ok |-> res.ok, batches |-> res.batches,
        error |-> IF res.ok THEN None ELSE Some(TransformFailedException(res.cause))]

(***************************************************************************)
(* The source archives of the model: the zip files processArchive is       *)
(* called on. A zip is unreadable (unzipSync throws) or a sequence of      *)
(* entries; an entry is a directory (a name ending in "/" with no data) or *)
(* a file with its bytes. The bytes of a file are its parsed form: the     *)
(* format tells which parser accepts them.                                 *)
(***************************************************************************)
Msg(role, text, t) ==
    [author |-> Some(role), content_type |-> Some("text"), parts0 |-> Some(text),
     create_time |-> t]

Conv(title, id, msgs) ==
    [title |-> Some(title), conversation_id |-> Some(id), mapping |-> msgs]

Item(uri, t, title) == [uri |-> uri, creation_timestamp |-> t, title |-> title]

Corrupt == [format |-> "corrupt", body |-> <<>>]

PlainText == [format |-> "text", body |-> <<>>]

Blob == [format |-> "binary", body |-> <<>>]

\* one user, one assistant, one system and one tool message
ChatA ==
    [format |-> "chatgpt",
     body |-> <<Conv("Greetings", "c1",
                     <<Msg("system", "be kind", None),
                       Msg("user", "hi", Some(1)),
                       Msg("assistant", "hello", Some(1)),
                       Msg("tool", "lookup", Some(1))>>)>>]

\* a later export: one new message, then one that ChatA holds as well
ChatB ==
    [format |-> "chatgpt",
     body |-> <<Conv("Greetings", "c1",
                     <<Msg("user", "more", Some(2)),
                       Msg("user", "hi", Some(1))>>)>>]

\* the same message twice in one file
ChatDup ==
    [format |-> "chatgpt",
     body |-> <<Conv("Echo", "c2",
                     <<Msg("user", "again", Some(1)),
                       Msg("assistant", "sure", Some(1)),
                       Msg("user", "again", Some(1))>>)>>]

\* a create_time beyond the range of Date
ChatBadTime ==
    [format |-> "chatgpt",
     body |-> <<Conv("Late", "c3", <<Msg("user", "when", Some(9000000))>>)>>]

\* a long export, more than one chunk, whose last message repeats the first
ChatBig ==
    [format |-> "chatgpt",
     body |-> <<Conv("Long", "c4",
                     [i \in 1..BigCount |->
                         Msg("user", ToString(IF i = BigCount THEN 1 ELSE i), Some(1))])>>]

Story1 == <<"media", SL, "stories", SL, "story1", ".mp4">>

Story2 == <<"media", SL, "stories", SL, "story2", ".jpg">>

Reel1 == <<"media", SL, "reels", SL, "reel1", ".mp4">>

Stories == [format |-> "stories",
            body |-> <<Item(Story1, 1, "At the beach"), Item(Story2, 1, "")>>]

Reels == [format |-> "reels", body |-> << <<Item(Reel1, 1, "")>> >>]

File(name, data) == [name |-> name, dir |-> FALSE, data |-> data]

Dir(name) == [name |-> name, dir |-> TRUE, data |-> Blob]

Zip(entries) == [bad |-> FALSE, entries |-> entries]

ZipNames == {"bad", "chatA", "chatB", "chatDup", "chatBadTime", "chatCorrupt",
             "chatBig", "empty", "shared", "slip", "igOk", "igStoriesCorrupt",
             "igReelsCorrupt"}

ZipOf(z) ==
    CASE z = "bad" -> [bad |-> TRUE, entries |-> <<>>]
      [] z = "chatA" -> Zip(<<File(CONVERSATIONS_JSON, ChatA)>>)
      [] z = "chatB" -> Zip(<<File(CONVERSATIONS_JSON, ChatB)>>)
      [] z = "chatDup" -> Zip(<<File(CONVERSATIONS_JSON, ChatDup)>>)
      [] z = "chatBadTime" -> Zip(<<File(CONVERSATIONS_JSON, ChatBadTime)>>)
      [] z = "chatCorrupt" -> Zip(<<File(CONVERSATIONS_JSON, Corrupt)>>)
      [] z = "chatBig" -> Zip(<<File(CONVERSATIONS_JSON, ChatBig)>>)
      [] z = "empty" -> Zip(<<Dir(<<"docs", SL>>), File(<<"readme.txt">>, PlainText)>>)
      [] z = "shared" ->
            Zip(<<File(<<"shared_", "conversations.json">>, ChatA),
                  File(<<"old", SL, "conversations.json">>, ChatA)>>)
      \* entry names that climb out of the directory they are unpacked into
      [] z = "slip" ->
            Zip(<<File(<<"..", SL, "1", SL, "readme.txt">>, PlainText),
                  File(<<"..", SL, "escaped.txt">>, PlainText)>>)
      [] z = "igOk" ->
            Zip(<<File(STORIES_JSON, Stories), File(REELS_JSON, Reels),
                  File(Story1, Blob)>>)
      [] z = "igStoriesCorrupt" ->
            Zip(<<File(STORIES_JSON, Corrupt), File(REELS_JSON, Reels)>>)
      [] OTHER ->
            Zip(<<File(STORIES_JSON, Stories), File(REELS_JSON, Corrupt)>>)

\* the calls the model makes: processArchive(provider, path to the zip)
Inputs ==
    ({"chatgpt"} \X {"bad", "chatA", "chatB", "chatDup", "chatBadTime",
                     "chatCorrupt", "empty", "shared", "slip"})
    \cup ({"instagram"} \X {"igOk", "igStoriesCorrupt", "igReelsCorrupt", "empty"})
    \cup ({"unknown_provider", "toString"} \X {"chatA"})

\* the long export is given to the first call only: every state of its upload
\* holds all of its rows
InputsOf(r) == IF r = 1 THEN Inputs \cup {<<"chatgpt", "chatBig">>} ELSE Inputs

(***************************************************************************)
(* State.                                                                  *)
(***************************************************************************)
VARIABLES
    archives,      \* table archives: id -> [provider, status]
    etl_tasks,     \* table etl_tasks: id -> row
    threads,       \* table threads: the set of its rows
    txn,           \* the SQLite connection's transaction: open, and the tables at BEGIN
    storage,       \* the blob store
    uuid,          \* the number of crypto.randomUUID() calls made so far
    run,           \* per processArchive call: its position and its locals
    statusWrites,  \* history: per task, the status values written to its row
    uploadLog,     \* history: per task, the rows handed to upload and how it ended
    disc,          \* a direct call of discoverTasks: its arguments and its result
    call           \* a direct call of a strategy's extract or transform

vars == <<archives, etl_tasks, threads, txn, storage, uuid, run, statusWrites,
          uploadLog, disc, call>>

Runs == 1..MaxRuns

NoTask == [archiveId |-> "", etlTaskId |-> "", provider |-> "",
           interactionType |-> "", filenames |-> <<>>]

EmptyResult == [archiveId |-> "", tasksCompleted |-> 0, tasksFailed |-> 0,
                threadsCreated |-> 0, errors |-> <<>>]

IdleRun == [pc |-> "idle", provider |-> "", zip |-> "", archiveId |-> "",
            todo |-> <<>>, descs |-> <<>>, task |-> NoTask,
            raw |-> <<>>, threadBatches |-> <<>>, total |-> 0,
            exc |-> None, result |-> EmptyResult, thrown |-> None]

TxnClosed == [open |-> FALSE, saved |-> <<>>]

NoCall == [pc |-> "none", manifest |-> <<>>, archiveId |-> "", files |-> <<>>,
           tasks |-> <<>>]

NoStrategyCall == [pc |-> "none", fn |-> "", strategy |-> "", task |-> NoTask,
                   input |-> <<>>, result |-> <<>>]

Init ==
    /\ archives = <<>>
    /\ etl_tasks = <<>>
    /\ threads = {}
    /\ txn = TxnClosed
    /\ storage = <<>>
    /\ uuid = 0
    /\ run = [r \in Runs |-> IdleRun]
    /\ statusWrites = <<>>
    /\ uploadLog = <<>>
    /\ disc = NoCall
    /\ call = NoStrategyCall

(***************************************************************************)
(* SQL statements on the tables.                                           *)
(***************************************************************************)
\* crypto.randomUUID(): the n-th call returns the n-th fresh identifier
randomUUID(n) == ToString(n + 1)

Put(f, k, v) == [x \in DOMAIN f \cup {k} |-> IF x = k THEN v ELSE f[x]]

\* INSERT INTO archives (id, provider, status, ...) VALUES (?, ?, 'created', ...)
InsertArchive(tbl, id, provider) ==
    Put(tbl, id, [provider |-> provider, status |-> "created"])

\* an UPDATE of archives without its WHERE clause
UpdateArchiveStatus_EveryRow(tbl, id, status) ==
    [x \in DOMAIN tbl |-> [tbl[x] EXCEPT !.status = status]]

\* UPDATE archives SET status = ? WHERE id = ?
UpdateArchiveStatus(tbl, id, status) ==
    [x \in DOMAIN tbl |-> IF x = id THEN [tbl[x] EXCEPT !.status = status] ELSE tbl[x]]

\* INSERT INTO etl_tasks (...): the three counters take their DEFAULT 0
InsertEtlTask(tbl, id, archiveId, provider, interactionType) ==
    Put(tbl, id, [archive_id |-> archiveId, provider |-> provider,
                  interaction_type |-> interactionType, status |-> "created",
                  extracted_count |-> 0, transformed_count |-> 0,
                  uploaded_count |-> 0])

\* updateEtlTaskStatus: UPDATE etl_tasks SET status = ? WHERE id = ?
updateEtlTaskStatus(tbl, id, status) ==
    [x \in DOMAIN tbl |-> IF x = id THEN [tbl[x] EXCEPT !.status = status] ELSE tbl[x]]

\* a completed UPDATE that stores the extracted count as the uploaded count
UpdateEtlTaskCompleted_UploadedIsExtracted(tbl, id, extracted, transformed, uploaded) ==
    [x \in DOMAIN tbl |->
        IF x = id
        THEN [tbl[x] EXCEPT !.status = "completed", !.extracted_count = extracted,
                            !.transformed_count = transformed,
                            !.uploaded_count = extracted]
        ELSE tbl[x]]

\* UPDATE etl_tasks SET status = 'completed', extracted_count = ?, ...
UpdateEtlTaskCompleted(tbl, id, extracted, transformed, uploaded) ==
    [x \in DOMAIN tbl |->
        IF x = id
        THEN [tbl[x] EXCEPT !.status = "completed", !.extracted_count = extracted,
                            !.transformed_count = transformed,
                            !.uploaded_count = uploaded]
        ELSE tbl[x]]

\* threads.unique_key is declared NOT NULL UNIQUE with no conflict clause and
\* the statement is a plain INSERT: a second row with the key aborts it
UniqueViolation(tbl, row) == \E t \in tbl : t.unique_key = row.uniqueKey

\* INSERT INTO threads (...) VALUES (...)
InsertThread(tbl, id, task, row) ==
    tbl \cup {[id |-> id, unique_key |-> row.uniqueKey, etl_task_id |-> task.etlTaskId,
               provider |-> row.provider, interaction_type |-> row.interactionType,
               preview |-> row.preview, payload |-> row.payload, asset_uri |-> row.assetUri, asat |-> row.asat]}

LogStatus(log, id, status) ==
    Put(log, id, IF id \in DOMAIN log THEN Append(log[id], status) ELSE <<status>>)

(***************************************************************************)
(* ContextUse.processArchive, one action per step between two awaits.      *)
(***************************************************************************)
Active(r) == run[r].pc \notin {"idle", "returned", "rejected"}

\* the caller awaits each processArchive before it makes the next call, as
\* the command line and the tests do
MayCall(r) ==
    /\ run[r].pc = "idle"
    /\ \A q \in Runs : ~Active(q)
    /\ \A q \in Runs : q < r => run[q].pc # "idle"

Goto(r, pc) == [run EXCEPT ![r].pc = pc]

\* the outer catch: UPDATE archives SET status = 'failed', then
\* throw new ArchiveProcessingError(String(exc))
\* an outer catch that throws without the UPDATE of the Archive row
ArchiveFatal_NoStatus(r) ==
    /\ archives' = archives
    /\ run' = [run EXCEPT ![r].pc = "rejected",
                          ![r].thrown = Some("ArchiveProcessingError")]

ArchiveFatal(r) ==
    /\ archives' = UpdateArchiveStatus(archives, run[r].archiveId, "failed")
    /\ run' = [run EXCEPT ![r].pc = "rejected",
                          ![r].thrown = Some("ArchiveProcessingError")]

\* the provider check, and step 1: the Archive row
StartCall(r, inputs) ==
    /\ \E in \in inputs :
         LET provider == in[1]
             archiveId == randomUUID(uuid)
         IN IF ~InRegistry(provider)
            THEN /\ run' = [run EXCEPT ![r].pc = "rejected",
                                       ![r].provider = provider,
                                       ![r].zip = in[2],
                                       ![r].thrown = Some("UnsupportedProviderError")]
                 /\ UNCHANGED <<archives, uuid>>
            ELSE /\ uuid' = uuid + 1
                 /\ archives' = InsertArchive(archives, archiveId, provider)
                 /\ run' = [run EXCEPT ![r].pc = "unzip_open",
                                       ![r].provider = provider,
                                       ![r].zip = in[2],
                                       ![r].archiveId = archiveId,
                                       ![r].result = [EmptyResult EXCEPT !.archiveId = archiveId]]
    /\ UNCHANGED <<etl_tasks, threads, txn, storage, statusWrites, uploadLog>>
    /\ UNCHANGED <<disc, call>>

Call(r) == MayCall(r) /\ StartCall(r, InputsOf(r))

\* unzip: readFileSync and unzipSync
UnzipOpen(r) ==
    /\ run[r].pc = "unzip_open"
    /\ IF ZipOf(run[r].zip).bad
       THEN ArchiveFatal(r)
       ELSE /\ run' = [run EXCEPT ![r].pc = "unzip",
                                  ![r].todo = ZipOf(run[r].zip).entries]
            /\ UNCHANGED archives
    /\ UNCHANGED <<etl_tasks, threads, txn, storage, uuid, statusWrites, uploadLog>>
    /\ UNCHANGED <<disc, call>>

\* unzip: one entry of the archive; a directory is skipped, a file is
\* written under `${prefix}${posix.normalize(name)}`; the write may fail
UnzipEntry(r) ==
    /\ run[r].pc = "unzip"
    /\ run[r].todo # <<>>
    /\ LET e == Head(run[r].todo)
           key == ArchivePrefix(run[r].archiveId) \o Normalize(e.name)
       IN IF e.dir
          THEN /\ run' = [run EXCEPT ![r].todo = Tail(@)]
               /\ UNCHANGED <<archives, storage>>
          ELSE \E ioError \in BOOLEAN :
                 IF ioError
                 THEN ArchiveFatal(r) /\ UNCHANGED storage
                 ELSE /\ storage' = StorageWrite(storage, key, e.data)
                      /\ run' = [run EXCEPT ![r].todo = Tail(@)]
                      /\ UNCHANGED archives
    /\ UNCHANGED <<etl_tasks, threads, txn, uuid, statusWrites, uploadLog>>
    /\ UNCHANGED <<disc, call>>

\* step 3: storage.list(archiveId), new providerCfg.orchestration() and
\* discoverTasks; the listing may fail, and `new undefined()` throws
Discover(r) ==
    /\ run[r].pc = "unzip"
    /\ run[r].todo = <<>>
    /\ \E ioError \in BOOLEAN :
         LET cfg == getProviderConfig(run[r].provider)
             files == StorageList(storage, <<run[r].archiveId>>)
         IN IF ioError \/ cfg.orchestration = None
            THEN ArchiveFatal(r)
            ELSE /\ run' = [run EXCEPT
                              ![r].pc = "loop",
                              ![r].descs = discoverTasks(cfg.orchestration[1],
                                                         run[r].archiveId, files)]
                 /\ UNCHANGED archives
    /\ UNCHANGED <<etl_tasks, threads, txn, storage, uuid, statusWrites, uploadLog>>
    /\ UNCHANGED <<disc, call>>

\* step 4, the head of the loop: `if (!itCfg) continue`, else the EtlTask row
InsertTask(r) ==
    /\ run[r].pc = "loop"
    /\ run[r].descs # <<>>
    /\ LET desc == Head(run[r].descs)
           etlTaskId == randomUUID(uuid)
       IN IF desc.interactionType \notin getProviderConfig(run[r].provider).interactionTypes
          THEN /\ run' = [run EXCEPT ![r].descs = Tail(@)]
               /\ UNCHANGED <<etl_tasks, uuid, statusWrites>>
          ELSE /\ uuid' = uuid + 1
               /\ etl_tasks' = InsertEtlTask(etl_tasks, etlTaskId, run[r].archiveId,
                                             run[r].provider, desc.interactionType)
               /\ statusWrites' = LogStatus(statusWrites, etlTaskId, "created")
               /\ run' = [run EXCEPT
                            ![r].pc = "task_created",
                            ![r].task = [archiveId |-> run[r].archiveId,
                                         etlTaskId |-> etlTaskId,
                                         provider |-> run[r].provider,
                                         interactionType |-> desc.interactionType,
                                         filenames |-> desc.filenames],
                            ![r].raw = <<>>, ![r].threadBatches = <<>>,
                            ![r].total = 0, ![r].exc = None]
    /\ UNCHANGED <<archives, threads, txn, storage, uploadLog>>
    /\ UNCHANGED <<disc, call>>

\* one updateEtlTaskStatus call of the task body
SetStatus(r, from, status, to) ==
    /\ run[r].pc = from
    /\ etl_tasks' = updateEtlTaskStatus(etl_tasks, run[r].task.etlTaskId, status)
    /\ statusWrites' = LogStatus(statusWrites, run[r].task.etlTaskId, status)
    /\ run' = Goto(r, to)
    /\ UNCHANGED <<archives, threads, txn, storage, uuid, uploadLog>>
    /\ UNCHANGED <<disc, call>>

StartExtracting(r) == SetStatus(r, "task_created", "extracting", "extract")

\* pipeline.extract(taskMeta)
Extract(r) ==
    /\ run[r].pc = "extract"
    /\ LET res == PipelineExtract(run[r].task, storage)
       IN run' = IF res.ok
                 THEN [run EXCEPT ![r].pc = "to_transform", ![r].raw = res.batches]
                 ELSE [run EXCEPT ![r].pc = "task_catch", ![r].exc = res.error]
    /\ UNCHANGED <<archives, etl_tasks, threads, txn, storage, uuid, statusWrites, uploadLog>>
    /\ UNCHANGED <<disc, call>>

StartTransforming(r) == SetStatus(r, "to_transform", "transforming", "transform")

\* pipeline.transform(taskMeta, raw)
Transform(r) ==
    /\ run[r].pc = "transform"
    /\ LET res == PipelineTransform(run[r].task, run[r].raw)
       IN run' = IF res.ok
                 THEN [run EXCEPT ![r].pc = "to_upload", ![r].threadBatches = res.batches]
                 ELSE [run EXCEPT ![r].pc = "task_catch", ![r].exc = res.error]
    /\ UNCHANGED <<archives, etl_tasks, threads, txn, storage, uuid, statusWrites, uploadLog>>
    /\ UNCHANGED <<disc, call>>

\* an upload entered without the status write
StartUploading_Skipped(r) ==
    /\ run[r].pc = "to_upload"
    /\ run' = Goto(r, "begin")
    /\ UNCHANGED <<archives, etl_tasks, threads, txn, storage, uuid, statusWrites,
                   uploadLog, disc, call>>

StartUploading(r) == SetStatus(r, "to_upload", "uploading", "begin")

(***************************************************************************)
(* UploadStrategy.upload inside SQLiteBackend.transaction: BEGIN, one      *)
(* INSERT per row of every batch in order, then COMMIT, or ROLLBACK when   *)
(* a statement throws. The rows are visited in the order of the nested     *)
(* loops: `total` rows are done, the next one is row total + 1 of the      *)
(* concatenated batches.                                                    *)
(***************************************************************************)
\* the errors of the SQLite connection, as String(err) gives them
SQLITE_CONSTRAINT_UNIQUE == "SQLiteError: UNIQUE constraint failed: threads.unique_key"

SQLITE_NESTED_BEGIN == "SQLiteError: cannot start a transaction within a transaction"

SQLITE_NO_TRANSACTION == "SQLiteError: no transaction is active"

\* what the catch of transaction() throws: the error fn threw, or the error
\* of ROLLBACK itself when no transaction is open
RollbackCause == IF txn.open THEN SQLITE_CONSTRAINT_UNIQUE ELSE SQLITE_NO_TRANSACTION

LogUpload(log, id, total, state) == Put(log, id, [total |-> total, state |-> state])

\* this.db.exec("BEGIN"): outside the try, so a failing BEGIN is not rolled back
TxnBegin(r) ==
    /\ run[r].pc = "begin"
    /\ IF txn.open
       THEN /\ run' = [run EXCEPT ![r].pc = "task_catch",
                                  ![r].exc = Some(UploadFailedException(SQLITE_NESTED_BEGIN))]
            /\ UNCHANGED <<txn, uploadLog>>
       ELSE /\ txn' = [open |-> TRUE, saved |-> <<archives, etl_tasks, threads>>]
            /\ uploadLog' = LogUpload(uploadLog, run[r].task.etlTaskId,
                                      SumLen(run[r].threadBatches), "open")
            /\ run' = [run EXCEPT ![r].pc = "insert", ![r].total = 0]
    /\ UNCHANGED <<archives, etl_tasks, threads, storage, uuid, statusWrites>>
    /\ UNCHANGED <<disc, call>>

\* an INSERT on a table without the UNIQUE constraint on unique_key
InsertRow_NoConstraint(r) ==
    /\ run[r].pc = "insert"
    /\ run[r].total < SumLen(run[r].threadBatches)
    /\ LET row == Flatten(run[r].threadBatches)[run[r].total + 1]
           id == randomUUID(uuid)
       IN /\ uuid' = uuid + 1
          /\ threads' = InsertThread(threads, id, run[r].task, row)
          /\ run' = [run EXCEPT ![r].total = @ + 1]
    /\ UNCHANGED <<archives, etl_tasks, txn, storage, statusWrites, uploadLog, disc, call>>

\* one INSERT INTO threads; a constraint violation throws out of fn
InsertRow(r) ==
    /\ run[r].pc = "insert"
    /\ run[r].total < SumLen(run[r].threadBatches)
    /\ LET row == Flatten(run[r].threadBatches)[run[r].total + 1]
           id == randomUUID(uuid)
       IN /\ uuid' = uuid + 1
          /\ IF UniqueViolation(threads, row)
             THEN /\ run' = [run EXCEPT ![r].pc = "rollback"]
                  /\ UNCHANGED threads
             ELSE /\ threads' = InsertThread(threads, id, run[r].task, row)
                  /\ run' = [run EXCEPT ![r].total = @ + 1]
    /\ UNCHANGED <<archives, etl_tasks, txn, storage, statusWrites, uploadLog>>
    /\ UNCHANGED <<disc, call>>

\* a transaction() that returns without COMMIT
TxnCommit_LeavesOpen(r) ==
    /\ run[r].pc = "insert"
    /\ run[r].total = SumLen(run[r].threadBatches)
    /\ run' = Goto(r, "mark_completed")
    /\ UNCHANGED <<archives, etl_tasks, threads, txn, storage, uuid, statusWrites,
                   uploadLog, disc, call>>

\* a transaction that discards the writes of a function that returned
TxnCommit_Discards(r) ==
    /\ run[r].pc = "insert"
    /\ run[r].total = SumLen(run[r].threadBatches)
    /\ IF txn.open
       THEN /\ threads' = txn.saved[3]
            /\ txn' = TxnClosed
            /\ uploadLog' = LogUpload(uploadLog, run[r].task.etlTaskId,
                                      SumLen(run[r].threadBatches), "returned")
            /\ run' = Goto(r, "mark_completed")
       ELSE /\ run' = [run EXCEPT ![r].pc = "task_catch",
                                  ![r].exc = Some(UploadFailedException(SQLITE_NO_TRANSACTION))]
            /\ UNCHANGED <<threads, txn, uploadLog>>
    /\ UNCHANGED <<archives, etl_tasks, storage, uuid, statusWrites, disc, call>>

\* fn returned: this.db.exec("COMMIT")
TxnCommit(r) ==
    /\ run[r].pc = "insert"
    /\ run[r].total = SumLen(run[r].threadBatches)
    /\ IF txn.open
       THEN /\ txn' = TxnClosed
            /\ uploadLog' = LogUpload(uploadLog, run[r].task.etlTaskId,
                                      SumLen(run[r].threadBatches), "returned")
            /\ run' = Goto(r, "mark_completed")
       ELSE /\ run' = [run EXCEPT ![r].pc = "task_catch",
                                  ![r].exc = Some(UploadFailedException(SQLITE_NO_TRANSACTION))]
            /\ UNCHANGED <<txn, uploadLog>>
    /\ UNCHANGED <<archives, etl_tasks, threads, storage, uuid, statusWrites>>
    /\ UNCHANGED <<disc, call>>

\* a failed upload that keeps the rows inserted before the failing statement
TxnRollback_KeepsRows(r) ==
    /\ run[r].pc = "rollback"
    /\ txn' = TxnClosed
    /\ uploadLog' = IF txn.open
                    THEN LogUpload(uploadLog, run[r].task.etlTaskId,
                                   SumLen(run[r].threadBatches), "threw")
                    ELSE uploadLog
    /\ run' = [run EXCEPT ![r].pc = "task_catch",
                          ![r].exc = Some(UploadFailedException(RollbackCause))]
    /\ UNCHANGED <<archives, etl_tasks, threads, storage, uuid, statusWrites, disc, call>>

\* fn threw: this.db.exec("ROLLBACK"), and the error is rethrown; the runner
\* wraps it as UploadFailedException
TxnRollback(r) ==
    /\ run[r].pc = "rollback"
    /\ IF txn.open
       THEN /\ archives' = txn.saved[1]
            /\ etl_tasks' = txn.saved[2]
            /\ threads' = txn.saved[3]
            /\ txn' = TxnClosed
            /\ uploadLog' = LogUpload(uploadLog, run[r].task.etlTaskId,
                                      SumLen(run[r].threadBatches), "threw")
       ELSE UNCHANGED <<archives, etl_tasks, threads, txn, uploadLog>>
    /\ run' = [run EXCEPT ![r].pc = "task_catch",
                          ![r].exc = Some(UploadFailedException(RollbackCause))]
    /\ UNCHANGED <<storage, uuid, statusWrites>>
    /\ UNCHANGED <<disc, call>>

\* a result that counts one thread per completed task
MarkCompleted_CountsTasks(r) ==
    /\ run[r].pc = "mark_completed"
    /\ LET count == run[r].total
           extractedCount == SumLen(run[r].raw)
           transformedCount == SumLen(run[r].threadBatches)
       IN /\ etl_tasks' = UpdateEtlTaskCompleted(etl_tasks, run[r].task.etlTaskId,
                                                 extractedCount, transformedCount, count)
          /\ run' = [run EXCEPT ![r].pc = "loop",
                                ![r].descs = Tail(@),
                                ![r].raw = <<>>, ![r].threadBatches = <<>>,
                                ![r].result.tasksCompleted = @ + 1,
                                ![r].result.threadsCreated = @ + 1]
    /\ statusWrites' = LogStatus(statusWrites, run[r].task.etlTaskId, "completed")
    /\ UNCHANGED <<archives, threads, txn, storage, uuid, uploadLog, disc, call>>

\* "Mark completed": the counters and the status in one UPDATE, then the result
MarkCompleted(r) ==
    /\ run[r].pc = "mark_completed"
    /\ LET count == run[r].total
           extractedCount == SumLen(run[r].raw)
           transformedCount == SumLen(run[r].threadBatches)
       IN /\ etl_tasks' = UpdateEtlTaskCompleted(etl_tasks, run[r].task.etlTaskId,
                                                 extractedCount, transformedCount, count)
          /\ run' = [run EXCEPT ![r].pc = "loop",
                                ![r].descs = Tail(@),
                                ![r].raw = <<>>, ![r].threadBatches = <<>>,
                                ![r].result.tasksCompleted = @ + 1,
                                ![r].result.threadsCreated = @ + count]
    /\ statusWrites' = LogStatus(statusWrites, run[r].task.etlTaskId, "completed")
    /\ UNCHANGED <<archives, threads, txn, storage, uuid, uploadLog>>
    /\ UNCHANGED <<disc, call>>

\* an inner catch that marks the task failed and rethrows
TaskCatch_Aborts(r) ==
    /\ run[r].pc = "task_catch"
    /\ etl_tasks' = updateEtlTaskStatus(etl_tasks, run[r].task.etlTaskId, "failed")
    /\ statusWrites' = LogStatus(statusWrites, run[r].task.etlTaskId, "failed")
    /\ archives' = UpdateArchiveStatus(archives, run[r].archiveId, "failed")
    /\ run' = [run EXCEPT ![r].pc = "rejected",
                          ![r].thrown = Some("ArchiveProcessingError")]
    /\ UNCHANGED <<threads, txn, storage, uuid, uploadLog, disc, call>>

\* the inner catch: the task is marked failed and the error is recorded
TaskCatch(r) ==
    /\ run[r].pc = "task_catch"
    /\ etl_tasks' = updateEtlTaskStatus(etl_tasks, run[r].task.etlTaskId, "failed")
    /\ statusWrites' = LogStatus(statusWrites, run[r].task.etlTaskId, "failed")
    /\ run' = [run EXCEPT ![r].pc = "loop",
                          ![r].descs = Tail(@),
                          ![r].raw = <<>>, ![r].threadBatches = <<>>,
                          ![r].exc = None,
                          ![r].result.tasksFailed = @ + 1,
                          ![r].result.errors = Append(@, ErrorString(run[r].exc[1]))]
    /\ UNCHANGED <<archives, threads, txn, storage, uuid, uploadLog>>
    /\ UNCHANGED <<disc, call>>

\* a final status that ignores the failed tasks
FinishArchive_AlwaysCompleted(r) ==
    /\ run[r].pc = "loop"
    /\ run[r].descs = <<>>
    /\ archives' = UpdateArchiveStatus(archives, run[r].archiveId, "completed")
    /\ run' = Goto(r, "returned")
    /\ UNCHANGED <<etl_tasks, threads, txn, storage, uuid, statusWrites, uploadLog, disc, call>>

\* a final status that asks for at least one completed task
FinishArchive_NeedsCompletedTask(r) ==
    /\ run[r].pc = "loop"
    /\ run[r].descs = <<>>
    /\ LET finalStatus == IF run[r].result.tasksCompleted > 0
                             /\ run[r].result.tasksFailed = 0
                          THEN "completed" ELSE "failed"
       IN archives' = UpdateArchiveStatus(archives, run[r].archiveId, finalStatus)
    /\ run' = Goto(r, "returned")
    /\ UNCHANGED <<etl_tasks, threads, txn, storage, uuid, statusWrites, uploadLog, disc, call>>

\* step 5: the archive's final status, and the return
FinishArchive(r) ==
    /\ run[r].pc = "loop"
    /\ run[r].descs = <<>>
    /\ LET finalStatus == IF run[r].result.tasksFailed = 0 THEN "completed" ELSE "failed"
       IN archives' = UpdateArchiveStatus(archives, run[r].archiveId, finalStatus)
    /\ run' = Goto(r, "returned")
    /\ UNCHANGED <<etl_tasks, threads, txn, storage, uuid, statusWrites, uploadLog>>
    /\ UNCHANGED <<disc, call>>

Next ==
    \E r \in Runs :
        \/ Call(r)
        \/ UnzipOpen(r)
        \/ UnzipEntry(r)
        \/ Discover(r)
        \/ InsertTask(r)
        \/ StartExtracting(r)
        \/ Extract(r)
        \/ StartTransforming(r)
        \/ Transform(r)
        \/ StartUploading(r)
        \/ TxnBegin(r)
        \/ InsertRow(r)
        \/ TxnCommit(r)
        \/ TxnRollback(r)
        \/ MarkCompleted(r)
        \/ TaskCatch(r)
        \/ FinishArchive(r)

Spec == Init /\ [][Next]_vars

(***************************************************************************)
(* processArchive on a database whose statements may fail: db.execute      *)
(* throws (the file is locked by another process, the disk is full) and    *)
(* the statement has written nothing. The statements of processArchive     *)
(* itself may fail; those inside upload's transaction are as above.        *)
(***************************************************************************)
\* the error of a statement that failed, as db.execute throws it
SQLITE_IOERR == [name |-> "SQLiteError", message |-> <<"disk I/O error">>]

\* the outer catch: its UPDATE of the Archive row may fail as well, and then
\* its error is what the call rejects with
OuterCatch(r) ==
    \E fails \in BOOLEAN :
        IF fails
        THEN /\ archives' = archives
             /\ run' = [run EXCEPT ![r].pc = "rejected",
                                   ![r].thrown = Some(SQLITE_IOERR.name)]
        ELSE ArchiveFatal(r)

\* step 1 fails: the INSERT of the Archive row is outside the try
CallFails(r) ==
    /\ MayCall(r)
    /\ \E in \in InputsOf(r) :
         /\ InRegistry(in[1])
         /\ uuid' = uuid + 1
         /\ run' = [run EXCEPT ![r].pc = "rejected",
                               ![r].provider = in[1],
                               ![r].zip = in[2],
                               ![r].thrown = Some(SQLITE_IOERR.name)]
    /\ UNCHANGED <<archives, etl_tasks, threads, txn, storage, statusWrites, uploadLog,
                   disc, call>>

\* the INSERT of the EtlTask row fails: it is inside the outer try only
InsertTaskFails(r) ==
    /\ run[r].pc = "loop"
    /\ run[r].descs # <<>>
    /\ Head(run[r].descs).interactionType
          \in getProviderConfig(run[r].provider).interactionTypes
    /\ uuid' = uuid + 1
    /\ OuterCatch(r)
    /\ UNCHANGED <<etl_tasks, threads, txn, storage, statusWrites, uploadLog, disc, call>>

\* a write of the task body fails: updateEtlTaskStatus to extracting,
\* transforming or uploading, or the UPDATE that marks the task completed;
\* the inner catch takes the error
StatusWriteFails(r) ==
    /\ run[r].pc \in {"task_created", "to_transform", "to_upload", "mark_completed"}
    /\ run' = [run EXCEPT ![r].pc = "task_catch", ![r].exc = Some(SQLITE_IOERR)]
    /\ UNCHANGED <<archives, etl_tasks, threads, txn, storage, uuid, statusWrites,
                   uploadLog, disc, call>>

\* the inner catch's updateEtlTaskStatus(etlTaskId, "failed") fails: the
\* error leaves the loop and reaches the outer catch
TaskCatchFails(r) ==
    /\ run[r].pc = "task_catch"
    /\ OuterCatch(r)
    /\ UNCHANGED <<etl_tasks, threads, txn, storage, uuid, statusWrites, uploadLog,
                   disc, call>>

\* step 5 fails: the UPDATE of the archive's final status throws into the
\* outer catch
FinishArchiveFails(r) ==
    /\ run[r].pc = "loop"
    /\ run[r].descs = <<>>
    /\ OuterCatch(r)
    /\ UNCHANGED <<etl_tasks, threads, txn, storage, uuid, statusWrites, uploadLog,
                   disc, call>>

NextFaults ==
    \/ Next
    \/ \E r \in Runs :
          \/ CallFails(r)
          \/ InsertTaskFails(r)
          \/ StatusWriteFails(r)
          \/ TaskCatchFails(r)
          \/ FinishArchiveFails(r)

SpecFaults == Init /\ [][NextFaults]_vars

(***************************************************************************)
(* discoverTasks called directly, as the tests of OrchestrationStrategy    *)
(* do: on a subclass that declares any MANIFEST_MAP, with any listing.     *)
(***************************************************************************)
MESSAGE_PATTERN == <<"inbox", SL, "*", SL, "message_1.json">>

TestManifestMaps ==
    { ChatGPTManifestMap,
      InstagramManifestMap,
      << [pattern |-> MESSAGE_PATTERN, interactionType |-> "instagram_messages"] >>,
      << [pattern |-> CONVERSATIONS_JSON, interactionType |-> "chatgpt_conversations"],
         [pattern |-> MESSAGE_PATTERN, interactionType |-> "instagram_messages"] >> }

TestArchiveIds == {"a1", "a2"}

\* the keys a listing may hold
TestFiles ==
    { <<"a1", SL>> \o CONVERSATIONS_JSON,
      <<"a1", SL, "shared_", "conversations.json">>,
      <<"a1", SL, "old", SL, "conversations.json">>,
      <<"a2", SL>> \o CONVERSATIONS_JSON,
      <<"a1", SL>> \o STORIES_JSON,
      <<"a1", SL, "inbox", SL, "alice", SL, "message_1.json">>,
      <<"a1", SL, "inbox", SL, "bob", SL, "message_1.json">> }

InitDiscover ==
    /\ archives = <<>>
    /\ etl_tasks = <<>>
    /\ threads = {}
    /\ txn = TxnClosed
    /\ storage = <<>>
    /\ uuid = 0
    /\ run = [r \in Runs |-> IdleRun]
    /\ statusWrites = <<>>
    /\ uploadLog = <<>>
    /\ \E m \in TestManifestMaps, a \in TestArchiveIds, F \in SUBSET TestFiles :
         disc = [pc |-> "call", manifest |-> m, archiveId |-> a,
                 files |-> SetToSeq(F), tasks |-> <<>>]
    /\ call = NoStrategyCall

DiscoverCall ==
    /\ disc.pc = "call"
    /\ disc' = [disc EXCEPT !.pc = "done",
                            !.tasks = discoverTasks(disc.manifest, disc.archiveId,
                                                    disc.files)]
    /\ UNCHANGED <<archives, etl_tasks, threads, txn, storage, uuid, run,
                   statusWrites, uploadLog, call>>

SpecDiscover == InitDiscover /\ [][DiscoverCall]_vars

(***************************************************************************)
(* Direct calls of the strategies: extract on the bytes of one file, and   *)
(* transform on raw batches, with the task metadata the caller passes.     *)
(***************************************************************************)
\* a mapping item with a message that lacks some of its members
PartialMsg(author, contentType, part, t) ==
    [author |-> author, content_type |-> contentType, parts0 |-> part, create_time |-> t]

\* one conversation of one user, one assistant and one system message
ChatTrio ==
    [format |-> "chatgpt",
     body |-> <<Conv("Trio", "c5",
                     <<Msg("user", "ping", Some(1)),
                       Msg("assistant", "pong", Some(1)),
                       Msg("system", "rules", Some(1))>>)>>]

\* messages without author, without content, of another content type,
\* without parts, with an empty and with a blank first part, around one
\* user message
ChatFiltered ==
    [format |-> "chatgpt",
     body |-> <<Conv("Gaps", "c6",
                     <<PartialMsg(None, Some("text"), Some("anonymous"), Some(1)),
                       PartialMsg(Some("user"), None, None, Some(1)),
                       PartialMsg(Some("user"), Some("code"), Some("x = 1"), Some(1)),
                       PartialMsg(Some("user"), Some("text"), None, Some(1)),
                       Msg("user", "kept", None),
                       Msg("assistant", "", Some(1)),
                       Msg("assistant", " ", Some(1))>>)>>]

\* create_time in seconds at the ceiling's side (4e9) and in milliseconds (5e9)
ChatMillis ==
    [format |-> "chatgpt",
     body |-> <<Conv("Clock", "c7",
                     <<Msg("user", "seconds", Some(4)),
                       Msg("user", "millis", Some(5))>>)>>]

\* creation_timestamp in seconds (1e9) and in milliseconds (5e9)
StoriesMillis ==
    [format |-> "stories",
     body |-> <<Item(Story1, 1, "seconds"), Item(Story2, 5, "millis")>>]

\* more stories than one chunk holds
StoriesBig ==
    [format |-> "stories",
     body |-> [i \in 1..BigCount |-> Item(<<"media", SL, ToString(i), ".jpg">>, 1, "")]]

\* more reels than one chunk holds, in two entries
ReelsBig ==
    [format |-> "reels",
     body |-> << [i \in 1..(BigCount - 1) |->
                     Item(<<"media", SL, ToString(i), ".mp4">>, 1, "")],
                 <<Item(Reel1, 1, "")>> >>]

ExtractionStrategies == {"chatgpt_conversations", "instagram_stories", "instagram_reels"}

\* the bytes a caller may hand to extract
DataSamples ==
    {ChatA, ChatB, ChatDup, ChatBadTime, ChatBig, ChatTrio, ChatFiltered, ChatMillis,
     Stories, Reels, StoriesMillis, StoriesBig, ReelsBig, Corrupt, PlainText}

\* the extraction strategy the registry gives for an interaction type
StrategyExtract(strategy, data, key) ==
    CASE strategy = "chatgpt_conversations" -> ChatGPTExtract(data)
      [] strategy = "instagram_stories" -> StoriesExtract(data, key)
      [] OTHER -> ReelsExtract(data, key)

TransformStrategies == {"chatgpt", "instagram"}

\* the task metadata a caller may pass: the interaction types of the
\* registry, and one more of each provider
TaskSamples(strategy) ==
    IF strategy = "chatgpt"
    THEN {[NoTask EXCEPT !.archiveId = "a1", !.etlTaskId = "t1", !.provider = "chatgpt",
                         !.interactionType = it] :
             it \in {"chatgpt_conversations", "chatgpt_shared_conversations"}}
    ELSE {[NoTask EXCEPT !.archiveId = "a1", !.etlTaskId = "t1", !.provider = "instagram",
                         !.interactionType = it] :
             it \in {"instagram_stories", "instagram_reels", "instagram_posts"}}

\* the raw batches a caller may pass: what the extraction strategies return
RawSamples(strategy) ==
    IF strategy = "chatgpt"
    THEN {ChatGPTExtract(d).batches :
             d \in {ChatA, ChatB, ChatDup, ChatBadTime, ChatBig, ChatTrio, ChatFiltered,
                    ChatMillis}}
    ELSE {StoriesExtract(d, <<"a1", SL>> \o STORIES_JSON).batches :
             d \in {Stories, StoriesMillis, StoriesBig}}
         \cup {ReelsExtract(d, <<"a1", SL>> \o REELS_JSON).batches : d \in {Reels, ReelsBig}}

StrategyTransform(strategy, task, raw) ==
    IF strategy = "chatgpt" THEN ChatGPTTransform(task, raw)
    ELSE InstagramTransform(task, raw)

\* nested objects: the members name and url in either order, each a string,
\* null or undefined, or absent
NestedObjects ==
    LET V == {Str("x"), Str("y"), Null, Undefined}
    IN {Obj(<<>>)}
       \cup {Obj(<< <<k, v>> >>) : k \in {"name", "url"}, v \in V}
       \cup {Obj(<< <<"name", v>>, <<"url", w>> >>) : v \in V, w \in V}
       \cup {Obj(<< <<"url", w>>, <<"name", v>> >>) : v \in V, w \in V}

\* the payloads a caller may pass to uniqueKeySuffix: the members object (a
\* nested object, a string or null) and items (an array of at most one
\* string or nested object, or undefined) in either order, or absent
PayloadSamples ==
    LET O == NestedObjects \cup {Str("x"), Null}
        A == {Arr(<<>>), Arr(<<Str("x")>>), Undefined} \cup {Arr(<<o>>) : o \in NestedObjects}
    IN {Obj(<<>>)}
       \cup {Obj(<< <<"object", o>> >>) : o \in O}
       \cup {Obj(<< <<"items", a>> >>) : a \in A}
       \cup {Obj(<< <<"object", o>>, <<"items", a>> >>) : o \in O, a \in A}
       \cup {Obj(<< <<"items", a>>, <<"object", o>> >>) : o \in O, a \in A}

\* the payloads every sample is compared with
PayloadBase ==
    {Obj(<<>>),
     Obj(<< <<"object", Obj(<<>>)>> >>),
     Obj(<< <<"items", Arr(<<>>)>> >>),
     Obj(<< <<"object", Str("x")>>, <<"items", Arr(<<Str("x")>>)>> >>),
     Obj(<< <<"object", Obj(<< <<"name", Str("x")>> >>)>>,
            <<"items", Arr(<<Obj(<<>>)>>)>> >>),
     Obj(<< <<"object", Obj(<< <<"name", Str("x")>>, <<"url", Str("y")>> >>)>>,
            <<"items", Arr(<<Obj(<< <<"url", Str("x")>> >>)>>)>> >>)}

InitStrategy ==
    /\ archives = <<>>
    /\ etl_tasks = <<>>
    /\ threads = {}
    /\ txn = TxnClosed
    /\ storage = <<>>
    /\ uuid = 0
    /\ run = [r \in Runs |-> IdleRun]
    /\ statusWrites = <<>>
    /\ uploadLog = <<>>
    /\ disc = NoCall
    /\ \/ \E strategy \in ExtractionStrategies, d \in DataSamples :
             call = [pc |-> "call", fn |-> "extract", strategy |-> strategy,
                     task |-> [NoTask EXCEPT !.archiveId = "a1", !.etlTaskId = "t1",
                                             !.interactionType = strategy,
                                             !.filenames = << <<"a1", SL, "file.json">> >>],
                     input |-> d, result |-> <<>>]
       \/ \E strategy \in TransformStrategies :
             \E task \in TaskSamples(strategy), raw \in RawSamples(strategy) :
                 call = [pc |-> "call", fn |-> "transform", strategy |-> strategy,
                         task |-> task, input |-> raw, result |-> <<>>]
       \/ \E p \in PayloadBase, q \in PayloadSamples :
             call = [pc |-> "call", fn |-> "uniqueKeySuffix", strategy |-> "",
                     task |-> NoTask, input |-> <<p, q>>, result |-> <<>>]

\* strategy.extract(task, storage), the file being in the store
ExtractCall ==
    /\ call.pc = "call"
    /\ call.fn = "extract"
    /\ call' = [call EXCEPT !.pc = "done",
                            !.result = StrategyExtract(call.strategy, call.input,
                                                       call.task.filenames[1])]
    /\ UNCHANGED <<archives, etl_tasks, threads, txn, storage, uuid, run,
                   statusWrites, uploadLog, disc>>

\* strategy.transform(task, batches)
TransformCall ==
    /\ call.pc = "call"
    /\ call.fn = "transform"
    /\ call' = [call EXCEPT !.pc = "done",
                            !.result = StrategyTransform(call.strategy, call.task,
                                                         call.input)]
    /\ UNCHANGED <<archives, etl_tasks, threads, txn, storage, uuid, run,
                   statusWrites, uploadLog, disc>>

\* toDict and uniqueKeySuffix of two payloads, and the texts that are hashed
SuffixCall ==
    /\ call.pc = "call"
    /\ call.fn = "uniqueKeySuffix"
    /\ call' = [call EXCEPT !.pc = "done",
                            !.result = [dict |-> [i \in 1..2 |-> toDict(call.input[i])],
                                        hashed |-> [i \in 1..2 |-> payloadStr(call.input[i])],
                                        suffix |-> [i \in 1..2 |->
                                                       uniqueKeySuffixOf(call.input[i])]]]
    /\ UNCHANGED <<archives, etl_tasks, threads, txn, storage, uuid, run,
                   statusWrites, uploadLog, disc>>

NextStrategy == ExtractCall \/ TransformCall \/ SuffixCall

SpecStrategy == InitStrategy /\ [][NextStrategy]_vars

(***************************************************************************)
(* transform and upload called on the same records grouped into batches    *)
(* in different ways: ETLPipeline.transform, then ETLPipeline.upload on    *)
(* its result, on an empty database.                                       *)
(***************************************************************************)
\* groupings of a record sequence into non-empty batches: one batch, one
\* batch per record, and two batches with a short first one
Partitions(records) ==
    LET n == Len(records)
    IN IF n = 0 THEN {<<>>}
       ELSE {<<records>>, [i \in 1..n |-> <<records[i]>>]}
            \cup {<<SubSeq(records, 1, k), SubSeq(records, k + 1, n)>> :
                     k \in {j \in 1..MaxSplit : j < n}}

InitBatches ==
    /\ archives = <<>>
    /\ etl_tasks = <<>>
    /\ threads = {}
    /\ txn = TxnClosed
    /\ storage = <<>>
    /\ uuid = 0
    /\ run = [r \in Runs |-> IdleRun]
    /\ statusWrites = <<>>
    /\ uploadLog = <<>>
    /\ disc = NoCall
    /\ \E strategy \in TransformStrategies :
          \E task \in TaskSamples(strategy),
             raw \in {b \in RawSamples(strategy) : SumLen(b) <= MaxBatches} :
              \E batches \in {raw} \cup Partitions(Flatten(raw)) :
                  call = [pc |-> "call", fn |-> "transform", strategy |-> strategy,
                          task |-> task, input |-> batches, result |-> <<>>]

\* pipeline.upload(task, threadBatches) on what transform returned
UploadCall ==
    /\ call.pc = "done"
    /\ call.result.ok
    /\ call' = [call EXCEPT !.pc = "upload"]
    /\ run' = [run EXCEPT ![1] = [IdleRun EXCEPT !.pc = "begin",
                                                 !.task = call.task,
                                                 !.threadBatches = call.result.batches]]
    /\ UNCHANGED <<archives, etl_tasks, threads, txn, storage, uuid,
                   statusWrites, uploadLog, disc>>

NextBatches ==
    \/ TransformCall
    \/ UploadCall
    \/ TxnBegin(1)
    \/ InsertRow(1)
    \/ TxnCommit(1)
    \/ TxnRollback(1)

SpecBatches == InitBatches /\ [][NextBatches]_vars

(***************************************************************************)
(* The functions of payload/models.ts called directly.                     *)
(***************************************************************************)
RECURSIVE Text(_)
\* a text of n characters, its i-th character the last digit of i
Text(n) == IF n = 0 THEN "" ELSE Text(n - 1) \o ToString(n % 10)

ContentSamples == {Text(n) : n \in 0..MaxContent}

\* raw dicts: a tag of the union, a tag outside it, or no fibre_kind member
DictSamples ==
    {[type |-> t, fibre_kind |-> k] :
        t \in {"Create", "Note"},
        k \in {Some(x) : x \in FibreKinds \cup {"Like", ""}} \cup {None}}

InitPayload ==
    /\ archives = <<>>
    /\ etl_tasks = <<>>
    /\ threads = {}
    /\ txn = TxnClosed
    /\ storage = <<>>
    /\ uuid = 0
    /\ run = [r \in Runs |-> IdleRun]
    /\ statusWrites = <<>>
    /\ uploadLog = <<>>
    /\ disc = NoCall
    /\ \/ \E content \in ContentSamples :
             call = [pc |-> "call", fn |-> "getTextMessagePreview", strategy |-> "",
                     task |-> NoTask, input |-> content, result |-> <<>>]
       \/ \E data \in DictSamples :
             call = [pc |-> "call", fn |-> "makeThreadPayload", strategy |-> "",
                     task |-> NoTask, input |-> data, result |-> <<>>]

\* getTextMessagePreview(makeTextMessage(content))
PreviewCall ==
    /\ call.pc = "call"
    /\ call.fn = "getTextMessagePreview"
    /\ call' = [call EXCEPT !.pc = "done",
                            !.result = getTextMessagePreview(
                                           makeTextMessage(call.input, None))]
    /\ UNCHANGED <<archives, etl_tasks, threads, txn, storage, uuid, run,
                   statusWrites, uploadLog, disc>>

\* makeThreadPayload(data)
MakePayloadCall ==
    /\ call.pc = "call"
    /\ call.fn = "makeThreadPayload"
    /\ call' = [call EXCEPT !.pc = "done", !.result = makeThreadPayload(call.input)]
    /\ UNCHANGED <<archives, etl_tasks, threads, txn, storage, uuid, run,
                   statusWrites, uploadLog, disc>>

NextPayload == PreviewCall \/ MakePayloadCall

SpecPayload == InitPayload /\ [][NextPayload]_vars

(***************************************************************************)
(* ChatGPTConversationsExtractionStrategy.extract, event by event: the     *)
(* read of the file, one "data" event per conversation of the array, and   *)
(* the "end" event that resolves the promise, or the "error" event that    *)
(* rejects it. Memory is counted in conversations: `held` is how many      *)
(* conversations of the file lie in memory as bytes.                       *)
(***************************************************************************)
\* an export of n conversations of one message each
ChatMany(n) ==
    [format |-> "chatgpt",
     body |-> [i \in 1..n |-> Conv("Talk", ToString(i),
                                    <<Msg("user", ToString(i), Some(1))>>)]]

StreamSamples ==
    {ChatA, ChatTrio, ChatBig, Corrupt} \cup {ChatMany(n) : n \in 0..MaxConversations}

InitStream ==
    /\ archives = <<>>
    /\ etl_tasks = <<>>
    /\ threads = {}
    /\ txn = TxnClosed
    /\ storage = <<>>
    /\ uuid = 0
    /\ run = [r \in Runs |-> IdleRun]
    /\ statusWrites = <<>>
    /\ uploadLog = <<>>
    /\ disc = NoCall
    /\ \E d \in StreamSamples :
          call = [pc |-> "call", fn |-> "extract", strategy |-> "chatgpt_conversations",
                  task |-> [NoTask EXCEPT !.archiveId = "a1", !.etlTaskId = "t1",
                                          !.interactionType = "chatgpt_conversations",
                                          !.filenames = << <<"a1", SL, "file.json">> >>],
                  input |-> d,
                  result |-> [held |-> 0, parsed |-> 0, chunk |-> <<>>,
                              batches |-> <<>>, settled |-> None]]

\* const data = await storage.read(key): the bytes of the whole file
StreamRead ==
    /\ call.pc = "call"
    /\ call' = [call EXCEPT !.pc = "parsing",
                            !.result.held = Len(call.input.body)]
    /\ UNCHANGED <<archives, etl_tasks, threads, txn, storage, uuid, run,
                   statusWrites, uploadLog, disc>>

\* pipeline.on("data"): the records of the next conversation are pushed on
\* the chunk, and every full chunk on batches; on("error") rejects
StreamData ==
    /\ call.pc = "parsing"
    /\ IF call.input.format # "chatgpt"
       THEN call' = [call EXCEPT
                        !.pc = "done",
                        !.result.settled =
                            Some([ok |-> FALSE, batches |-> <<>>,
                                  cause |-> "Error: Parser cannot parse input"])]
       ELSE /\ call.result.parsed < Len(call.input.body)
            /\ LET conv == call.input.body[call.result.parsed + 1]
                    all == call.result.chunk \o ChatGPTRecordsOf(conv, conv.mapping)
                    full == Len(all) \div CHUNK_SIZE
               IN call' = [call EXCEPT
                             !.result.parsed = @ + 1,
                             !.result.batches =
                                 @ \o [b \in 1..full |->
                                          SubSeq(all, (b - 1) * CHUNK_SIZE + 1,
                                                 b * CHUNK_SIZE)],
                             !.result.chunk =
                                 SubSeq(all, full * CHUNK_SIZE + 1, Len(all))]
    /\ UNCHANGED <<archives, etl_tasks, threads, txn, storage, uuid, run,
                   statusWrites, uploadLog, disc>>

\* pipeline.on("end"): the chunk that is left, and resolve(batches)
StreamEnd ==
    /\ call.pc = "parsing"
    /\ call.input.format = "chatgpt"
    /\ call.result.parsed = Len(call.input.body)
    /\ LET batches == IF call.result.chunk # <<>>
                      THEN Append(call.result.batches, call.result.chunk)
                      ELSE call.result.batches
       IN call' = [call EXCEPT
                     !.pc = "done",
                     !.result.held = 0,
                     !.result.chunk = <<>>,
                     !.result.batches = batches,
                     !.result.settled = Some([ok |-> TRUE, batches |-> batches,
                                              cause |-> ""])]
    /\ UNCHANGED <<archives, etl_tasks, threads, txn, storage, uuid, run,
                   statusWrites, uploadLog, disc>>

NextStream == StreamRead \/ StreamData \/ StreamEnd

SpecStream == InitStream /\ [][NextStream]_vars

(***************************************************************************)
(* Two processArchive calls in flight on one ContextUse: the caller does   *)
(* not await the first before it makes the second (Promise.all). Every     *)
(* action is the code between two awaits, so the steps of the two calls    *)
(* interleave at will; both use the one connection of the SQLiteBackend.   *)
(***************************************************************************)
ConcurrentInputs ==
    {<<"chatgpt", "chatA">>, <<"chatgpt", "chatB">>, <<"chatgpt", "chatCorrupt">>}

\* a call made while another may be under way
CallConcurrently(r) ==
    /\ run[r].pc = "idle"
    /\ StartCall(r, ConcurrentInputs)

NextConcurrent ==
    \E r \in Runs :
        \/ CallConcurrently(r)
        \/ UnzipOpen(r)
        \/ UnzipEntry(r)
        \/ Discover(r)
        \/ InsertTask(r)
        \/ StartExtracting(r)
        \/ Extract(r)
        \/ StartTransforming(r)
        \/ Transform(r)
        \/ StartUploading(r)
        \/ TxnBegin(r)
        \/ InsertRow(r)
        \/ TxnCommit(r)
        \/ TxnRollback(r)
        \/ MarkCompleted(r)
        \/ TaskCatch(r)
        \/ FinishArchive(r)

SpecConcurrent == Init /\ [][NextConcurrent]_vars

(***************************************************************************)
(* DatabaseBackend.transaction called directly, as the backend's tests do: *)
(* fn makes some INSERTs into archives through db.execute and then returns *)
(* or throws. SQLiteBackend has one connection: execute and BEGIN, COMMIT, *)
(* ROLLBACK all run on it. PostgresBackend.transaction calls               *)
(* this.sql.begin with a callback that ignores the transaction-scoped sql  *)
(* it is given, and execute sends its statement through this.sql, the      *)
(* pool: with a free connection in the pool the statement runs there, on   *)
(* its own and committed at once; with a pool of one connection it waits   *)
(* for the connection the transaction holds.                               *)
(***************************************************************************)
Backends == {"sqlite", "postgres"}

\* the ids of the rows fn may insert
WriteIds == {"x", "y", "z"}

\* the statements of fn: INSERTs of distinct ids, at most MaxWrites
WriteSeqs ==
    {w \in UNION {[1..n -> WriteIds] : n \in 0..MaxWrites} :
        \A i \in 1..Len(w), j \in 1..Len(w) : w[i] = w[j] => i = j}

\* the `max` option of the postgres pool: one connection, or the default 10
PoolSizes == {1, 10}

InitBackend ==
    /\ archives = <<>>
    /\ etl_tasks = <<>>
    /\ threads = {}
    /\ txn = TxnClosed
    /\ storage = <<>>
    /\ uuid = 0
    /\ run = [r \in Runs |-> IdleRun]
    /\ statusWrites = <<>>
    /\ uploadLog = <<>>
    /\ disc = NoCall
    /\ \E b \in Backends, w \in WriteSeqs, throws \in BOOLEAN, max \in PoolSizes :
          call = [pc |-> "call", fn |-> "transaction", strategy |-> b, task |-> NoTask,
                  input |-> [writes |-> w, throws |-> throws, max |-> max],
                  result |-> [done |-> 0, outcome |-> ""]]

\* db.exec("BEGIN") / sql.begin: the transaction's connection begins
BackendBegin ==
    /\ call.pc = "call"
    /\ call.fn = "transaction"
    /\ txn' = [open |-> TRUE, saved |-> <<archives, etl_tasks, threads>>]
    /\ call' = [call EXCEPT !.pc = "body"]
    /\ UNCHANGED <<archives, etl_tasks, threads, storage, uuid, run, statusWrites,
                   uploadLog, disc>>

\* one db.execute of fn; on postgres it needs a connection of the pool other
\* than the one the transaction holds
BackendExecute ==
    /\ call.pc = "body"
    /\ call.result.done < Len(call.input.writes)
    /\ call.strategy = "postgres" => call.input.max > 1
    /\ archives' = InsertArchive(archives, call.input.writes[call.result.done + 1],
                                 "chatgpt")
    /\ call' = [call EXCEPT !.result.done = @ + 1]
    /\ UNCHANGED <<etl_tasks, threads, txn, storage, uuid, run, statusWrites,
                   uploadLog, disc>>

\* fn returned: COMMIT; fn threw: ROLLBACK, which undoes the statements of
\* the transaction's connection, and the error is rethrown
BackendEnd ==
    /\ call.pc = "body"
    /\ call.result.done = Len(call.input.writes)
    /\ archives' = IF call.input.throws /\ call.strategy = "sqlite"
                   THEN txn.saved[1]
                   ELSE archives
    /\ txn' = TxnClosed
    /\ call' = [call EXCEPT !.pc = "done",
                            !.result.outcome = IF call.input.throws THEN "threw"
                                               ELSE "returned"]
    /\ UNCHANGED <<etl_tasks, threads, storage, uuid, run, statusWrites,
                   uploadLog, disc>>

NextBackend == BackendBegin \/ BackendExecute \/ BackendEnd

SpecBackend == InitBackend /\ [][NextBackend]_vars

(***************************************************************************)
(* Properties.                                                             *)
(***************************************************************************)
TasksOfArchive(a) == {t \in DOMAIN etl_tasks : etl_tasks[t].archive_id = a}

RowsOfTask(t) == {x \in threads : x.etl_task_id = t}

RowsOfArchive(a) == {x \in threads : x.etl_task_id \in TasksOfArchive(a)}

TerminalStatus == {"completed", "failed"}

FailedTasks(a) == {t \in TasksOfArchive(a) : etl_tasks[t].status = "failed"}

CompletedTasks(a) == {t \in TasksOfArchive(a) : etl_tasks[t].status = "completed"}

Returned(r) == run[r].pc = "returned"

\* the patterns the provider's orchestration declares
DeclaredPatterns(provider) ==
    IF provider \in DOMAIN PROVIDER_REGISTRY
    THEN {e.pattern : e \in Range(PROVIDER_REGISTRY[provider].orchestration[1])}
    ELSE {}

\* the declared patterns that name a file of the zip
DeclaredFiles(provider, z) ==
    {pat \in DeclaredPatterns(provider) :
        \E e \in Range(ZipOf(z).entries) : ~e.dir /\ Normalize(e.name) = pat}

\* C1: once the upload transaction of a task has ended, the threads table
\* holds all the rows handed to upload (it returned) or none of them (it
\* threw): never a non-empty strict subset.
C1_UploadAllOrNothing ==
    \A t \in DOMAIN uploadLog :
        LET n == Cardinality(RowsOfTask(t))
        IN /\ uploadLog[t].state = "returned" => n = uploadLog[t].total
           /\ uploadLog[t].state = "threw" => n = 0

\* an upload that threw after it had inserted rows, in its second batch
C1_Witness ==
    \E r \in Runs :
        /\ run[r].pc = "task_catch"
        /\ run[r].total > CHUNK_SIZE - 1
        /\ run[r].task.etlTaskId \in DOMAIN uploadLog
        /\ uploadLog[run[r].task.etlTaskId].state = "threw"
        /\ uploadLog[run[r].task.etlTaskId].total > run[r].total

\* C2: a second processArchive of a source that was ingested successfully
\* ends with its tasks completed and its archive completed, and adds no row.
C2_ReingestIdempotent ==
    \A r1 \in Runs, r2 \in Runs :
        ( /\ r1 < r2
          /\ Returned(r1) /\ Returned(r2)
          /\ run[r1].provider = run[r2].provider /\ run[r1].zip = run[r2].zip
          /\ archives[run[r1].archiveId].status = "completed" )
        => /\ archives[run[r2].archiveId].status = "completed"
           /\ \A t \in TasksOfArchive(run[r2].archiveId) :
                 etl_tasks[t].status = "completed"
           /\ RowsOfArchive(run[r2].archiveId) = {}

\* C3: a failing task does not abort processArchive: the call returns, every
\* discovered task has a row in a terminal status, tasksFailed counts the
\* failed rows with one error each, and the archive is failed.
C3_TaskFailureIsolated ==
    \A r \in Runs :
        LET a == run[r].archiveId
        IN /\ (FailedTasks(a) # {} /\ run[r].pc \in {"returned", "rejected"})
                 => Returned(r)
           /\ Returned(r) =>
                 /\ \A t \in TasksOfArchive(a) : etl_tasks[t].status \in TerminalStatus
                 /\ Cardinality(TasksOfArchive(a))
                       = Cardinality(DeclaredFiles(run[r].provider, run[r].zip))
                 /\ run[r].result.tasksFailed = Cardinality(FailedTasks(a))
                 /\ run[r].result.tasksCompleted = Cardinality(CompletedTasks(a))
                 /\ Len(run[r].result.errors) = Cardinality(FailedTasks(a))
                 /\ FailedTasks(a) # {} => archives[a].status = "failed"

\* the first task of an archive failed and the second one completed
C3_Witness ==
    \E r \in Runs :
        /\ Returned(r)
        /\ run[r].zip = "igStoriesCorrupt"
        /\ run[r].result.tasksFailed = 1
        /\ run[r].result.tasksCompleted = 1
        /\ RowsOfArchive(run[r].archiveId) # {}

StatusOrder == <<"created", "extracting", "transforming", "uploading">>

\* C4: the status values written to a task's row are a prefix of created,
\* extracting, transforming, uploading, followed by at most one of completed
\* or failed, completed only after uploading, and nothing after a terminal
\* status; a call that returned left each of its tasks with a terminal one.
C4_StatusOrder ==
    /\ \A t \in DOMAIN statusWrites :
          LET w == statusWrites[t]
          IN /\ \E k \in 1..Len(StatusOrder) :
                   \/ w = SubSeq(StatusOrder, 1, k)
                   \/ w = Append(SubSeq(StatusOrder, 1, k), "failed")
                   \/ w = Append(StatusOrder, "completed")
             /\ t \in DOMAIN etl_tasks
             /\ etl_tasks[t].status = w[Len(w)]
    /\ \A r \in Runs : Returned(r) =>
          \A t \in TasksOfArchive(run[r].archiveId) :
              statusWrites[t][Len(statusWrites[t])] \in TerminalStatus

\* one task written through to completed, another failed while transforming
C4_Witness ==
    /\ \E t \in DOMAIN statusWrites : statusWrites[t] = Append(StatusOrder, "completed")
    /\ \E t \in DOMAIN statusWrites :
          statusWrites[t] = <<"created", "extracting", "transforming", "failed">>

\* C5: when processArchive returns, the archive is completed if no task of
\* it failed, and failed otherwise.
C5_ArchiveFinalStatus ==
    \A r \in Runs : Returned(r) =>
        archives[run[r].archiveId].status
            = IF run[r].result.tasksFailed = 0 /\ FailedTasks(run[r].archiveId) = {}
              THEN "completed" ELSE "failed"

\* one call returned with a completed archive and one with a failed archive
C5_Witness ==
    /\ \E r \in Runs : /\ Returned(r)
                       /\ run[r].result.tasksFailed = 0
                       /\ run[r].result.tasksCompleted > 0
                       /\ archives[run[r].archiveId].status = "completed"
    /\ \E r \in Runs : /\ Returned(r)
                       /\ run[r].result.tasksFailed > 0
                       /\ archives[run[r].archiveId].status = "failed"

\* C6: an error while unpacking or while listing and discovering rejects
\* with ArchiveProcessingError and leaves the Archive row failed, with no
\* EtlTask row and no thread row of that archive; no other error is thrown
\* once the Archive row exists.
C6_ArchiveFatal ==
    \A r \in Runs :
        LET a == run[r].archiveId
        IN /\ run[r].thrown = Some("ArchiveProcessingError") =>
                 /\ a \in DOMAIN archives
                 /\ archives[a].status = "failed"
                 /\ TasksOfArchive(a) = {}
                 /\ RowsOfArchive(a) = {}
           /\ (run[r].pc = "rejected" /\ a # "") =>
                 run[r].thrown = Some("ArchiveProcessingError")
           /\ (ZipOf(run[r].zip).bad /\ a # "" /\ ~Active(r)) =>
                 run[r].thrown = Some("ArchiveProcessingError")

\* a call rejected on an unreadable zip, and one rejected after it had
\* written a blob
C6_Witness ==
    /\ \E r \in Runs : /\ run[r].thrown = Some("ArchiveProcessingError")
                       /\ run[r].zip = "bad"
    /\ \E r \in Runs : /\ run[r].thrown = Some("ArchiveProcessingError")
                       /\ \E p \in DOMAIN storage :
                             IsPrefixOf(ArchivePrefix(run[r].archiveId), p)

\* C7: a call with a provider that has no entry in the registry rejects with
\* UnsupportedProviderError and inserts no Archive row.
C7_UnsupportedProvider ==
    \A r \in Runs :
        (run[r].pc # "idle" /\ run[r].provider \notin DOMAIN PROVIDER_REGISTRY)
        => /\ run[r].thrown = Some("UnsupportedProviderError")
           /\ run[r].archiveId = ""
           /\ \A a \in DOMAIN archives : archives[a].provider # run[r].provider

\* a glob pattern is satisfied by a path: "*" stands for any run of tokens
RECURSIVE GlobMatch(_, _)
GlobMatch(pat, path) ==
    IF pat = <<>> THEN path = <<>>
    ELSE IF Head(pat) = "*"
         THEN \E k \in 0..Len(path) :
                 GlobMatch(Tail(pat), SubSeq(path, k + 1, Len(path)))
         ELSE /\ path # <<>>
              /\ Head(path) = Head(pat)
              /\ GlobMatch(Tail(pat), Tail(path))

HasWildcard(pat) == "*" \in Range(pat)

DescriptorsOf(interactionType) ==
    {j \in 1..Len(disc.tasks) : disc.tasks[j].interactionType = interactionType}

\* C8: for a pattern with a wildcard, discovery returns one descriptor per
\* file of the archive that satisfies the pattern, each holding that file.
C8_WildcardFanOut ==
    disc.pc = "done" =>
        \A i \in 1..Len(disc.manifest) :
            LET e == disc.manifest[i]
                prefix == <<disc.archiveId, SL>>
                matched == {f \in Range(disc.files) :
                               /\ IsPrefixOf(prefix, f)
                               /\ GlobMatch(e.pattern,
                                            SubSeq(f, Len(prefix) + 1, Len(f)))}
                ds == DescriptorsOf(e.interactionType)
            IN HasWildcard(e.pattern) =>
                  /\ Cardinality(ds) = Cardinality(matched)
                  /\ \A f \in matched :
                        \E j \in ds : disc.tasks[j].filenames = <<f>>

\* C9: a descriptor names only the key {archiveId}/{pattern} of an entry of
\* its interaction type, and a pattern without wildcard yields its descriptor
\* exactly when that whole key is in the listing.
C9_ExactMatchOnly ==
    disc.pc = "done" =>
        LET prefix == <<disc.archiveId, SL>>
        IN /\ \A j \in 1..Len(disc.tasks) :
                 \A f \in Range(disc.tasks[j].filenames) :
                     \E i \in 1..Len(disc.manifest) :
                         /\ disc.manifest[i].interactionType
                               = disc.tasks[j].interactionType
                         /\ f = prefix \o disc.manifest[i].pattern
           /\ \A i \in 1..Len(disc.manifest) :
                 LET e == disc.manifest[i]
                 IN ~HasWildcard(e.pattern) =>
                       ( (prefix \o e.pattern) \in Range(disc.files)
                         <=> \E j \in DescriptorsOf(e.interactionType) :
                                disc.tasks[j].filenames = <<prefix \o e.pattern>> )

\* a listing with conversations.json, shared_conversations.json and a
\* conversations.json in a subdirectory: one descriptor, for the first only
C9_Witness ==
    /\ disc.pc = "done"
    /\ disc.manifest = ChatGPTManifestMap
    /\ disc.archiveId = "a1"
    /\ <<"a1", SL, "shared_", "conversations.json">> \in Range(disc.files)
    /\ <<"a1", SL, "old", SL, "conversations.json">> \in Range(disc.files)
    /\ Len(disc.tasks) = 1
    /\ disc.tasks[1].filenames = << <<"a1", SL, "conversations.json">> >>

\* C10: a call on an archive with no file the provider declares returns
\* zero counts and no error, creates no EtlTask row, and leaves the archive
\* completed.
C10_EmptyArchiveCompletes ==
    \A r \in Runs :
        ( /\ Returned(r)
          /\ DeclaredFiles(run[r].provider, run[r].zip) = {} )
        => /\ run[r].result.tasksCompleted = 0
           /\ run[r].result.tasksFailed = 0
           /\ run[r].result.threadsCreated = 0
           /\ run[r].result.errors = <<>>
           /\ TasksOfArchive(run[r].archiveId) = {}
           /\ archives[run[r].archiveId].status = "completed"

\* a call returned on an archive that holds files, none of them declared
C10_Witness ==
    \E r \in Runs :
        /\ Returned(r)
        /\ run[r].zip = "shared"
        /\ \E p \in DOMAIN storage : IsPrefixOf(ArchivePrefix(run[r].archiveId), p)
        /\ archives[run[r].archiveId].status = "completed"

\* the rows of threads that are committed: all of them outside a transaction,
\* those of the table at BEGIN inside one
CommittedThreads == IF txn.open THEN txn.saved[3] ELSE threads

UniquePerKey == \A x \in threads, y \in threads : x.unique_key = y.unique_key => x = y

\* C11: the threads table never holds two rows with one unique_key, and no
\* step of the pipeline changes or removes a committed row.
C11_OneRowPerKey ==
    [][UniquePerKey' /\ CommittedThreads \subseteq CommittedThreads']_vars

\* an INSERT refused on the key of a row committed by an earlier call, after
\* the same upload had inserted another row
C11_Witness ==
    \E r \in Runs :
        /\ run[r].pc = "rollback"
        /\ txn.open
        /\ txn.saved[3] # {}
        /\ threads # txn.saved[3]
        /\ UniqueViolation(txn.saved[3],
                           Flatten(run[r].threadBatches)[run[r].total + 1])

\* the stages task t has entered, by the status values written to its row
Entered(t, status) == t \in DOMAIN statusWrites /\ status \in Range(statusWrites[t])

\* C12: a failed task keeps the counters of the stages it completed:
\* extracted_count is the number of records extracted once transform was
\* entered, transformed_count the number of rows transformed once upload
\* was entered.
C12_CountersPerStage ==
    \A r \in Runs :
        LET t == run[r].task.etlTaskId
            raw == PipelineExtract(run[r].task, storage).batches
        IN (t \in DOMAIN etl_tasks /\ etl_tasks[t].status = "failed") =>
              /\ Entered(t, "transforming") =>
                    etl_tasks[t].extracted_count = SumLen(raw)
              /\ Entered(t, "uploading") =>
                    etl_tasks[t].transformed_count
                        = SumLen(PipelineTransform(run[r].task, raw).batches)

\* the stage a task was in when it threw: the last status written to its row
LastStatus(t) == statusWrites[t][Len(statusWrites[t])]

\* what the strategy of the task's interaction type threw in extract
ExtractionCause(task) ==
    LET data == storage[StoragePath(task.filenames[1])]
    IN CASE task.interactionType = "chatgpt_conversations" -> ChatGPTExtract(data).cause
         [] task.interactionType = "instagram_stories" ->
               StoriesExtract(data, task.filenames[1]).cause
         [] OTHER -> ReelsExtract(data, task.filenames[1]).cause

\* what the strategy of the task's interaction type threw in transform
TransformCause(task, raw) ==
    IF task.interactionType = "chatgpt_conversations"
    THEN ChatGPTTransform(task, raw).cause
    ELSE InstagramTransform(task, raw).cause

\* C13: the error a task is caught with is the typed error of the stage it
\* was in, its message holds the cause, and no later stage was started: no
\* transform result after a failed extract, no upload transaction and no
\* thread row after a failed extract or transform.
C13_TypedStageErrors ==
    \A r \in Runs : run[r].pc = "task_catch" =>
        LET task == run[r].task
            t == task.etlTaskId
            e == run[r].exc[1]
        IN /\ run[r].exc # None
           /\ LastStatus(t) \in {"extracting", "transforming", "uploading"}
           /\ LastStatus(t) = "extracting" =>
                 /\ e.name = "ExtractionFailedException"
                 /\ e.message = <<"Extraction failed: ", ExtractionCause(task)>>
                 /\ ExtractionCause(task) # ""
                 /\ run[r].raw = <<>> /\ run[r].threadBatches = <<>>
                 /\ t \notin DOMAIN uploadLog /\ RowsOfTask(t) = {}
           /\ LastStatus(t) = "transforming" =>
                 /\ e.name = "TransformFailedException"
                 /\ e.message = <<"Transform failed: ", TransformCause(task, run[r].raw)>>
                 /\ TransformCause(task, run[r].raw) # ""
                 /\ run[r].threadBatches = <<>>
                 /\ t \notin DOMAIN uploadLog /\ RowsOfTask(t) = {}
           /\ LastStatus(t) = "uploading" =>
                 /\ e.name = "UploadFailedException"
                 /\ e.message = <<"Upload failed: ", SQLITE_CONSTRAINT_UNIQUE>>
                 /\ t \in DOMAIN uploadLog /\ uploadLog[t].state = "threw"

\* a task caught with an upload error after rows were extracted and
\* transformed, in a call that follows one whose task was caught with an
\* extraction error
C13_Witness ==
    \E r \in Runs :
        /\ run[r].pc = "task_catch"
        /\ run[r].exc # None
        /\ run[r].exc[1].name = "UploadFailedException"
        /\ run[r].threadBatches # <<>>
        /\ \E q \in Runs :
              \E i \in 1..Len(run[q].result.errors) :
                  run[q].result.errors[i][1] = "ExtractionFailedException"

RECURSIVE SumUploaded(_)
\* the sum of uploaded_count over the tasks T
SumUploaded(T) ==
    IF T = {} THEN 0
    ELSE LET t == CHOOSE x \in T : TRUE
         IN etl_tasks[t].uploaded_count + SumUploaded(T \ {t})

\* C14: when processArchive has returned, threadsCreated is the number of
\* thread rows of the archive's tasks, and the sum of uploaded_count over
\* its completed tasks.
C14_ThreadsCreated ==
    \A r \in Runs : Returned(r) =>
        /\ run[r].result.threadsCreated = Cardinality(RowsOfArchive(run[r].archiveId))
        /\ run[r].result.threadsCreated = SumUploaded(CompletedTasks(run[r].archiveId))

\* a call that returned with two completed tasks of two and one rows
C14_Witness ==
    \E r \in Runs :
        /\ Returned(r)
        /\ run[r].zip = "igOk"
        /\ Cardinality(CompletedTasks(run[r].archiveId)) = 2
        /\ run[r].result.threadsCreated = 3
        /\ \E t \in CompletedTasks(run[r].archiveId) : etl_tasks[t].uploaded_count = 2

\* a direct call of transform has returned rows
Transformed == call.pc = "done" /\ call.fn = "transform" /\ call.result.ok

\* the rows a returned transform produced, in order
ResultRows == Flatten(call.result.batches)

\* C15: every row a transform strategy returns has the unique key made of
\* its own interaction type, which is the task's, and of the content hash of
\* its payload.
C15_KeyOfInteractionType ==
    Transformed =>
        \A i \in 1..Len(ResultRows) :
            /\ ResultRows[i].interactionType = call.task.interactionType
            /\ ResultRows[i].uniqueKey
                  = <<ResultRows[i].interactionType, uniqueKeySuffix(ResultRows[i].payload)>>

\* the members of an object that JSON keeps: neither null nor undefined
PresentKeys(obj) ==
    {obj.m[i][1] : i \in {j \in 1..Len(obj.m) : obj.m[j][2].t \notin {"null", "undefined"}}}

\* two payloads that differ at most in the insertion order of keys and in
\* members that are null or undefined, at any depth
RECURSIVE SamePayload(_, _)
SamePayload(p, q) ==
    CASE p.t = "object" /\ q.t = "object" ->
            /\ PresentKeys(p) = PresentKeys(q)
            /\ \A k \in PresentKeys(p) : SamePayload(Member(p, k), Member(q, k))
      [] p.t = "array" /\ q.t = "array" ->
            /\ Len(p.e) = Len(q.e)
            /\ \A i \in 1..Len(p.e) : SamePayload(p.e[i], q.e[i])
      [] OTHER -> p = q

Suffixed == call.pc = "done" /\ call.fn = "uniqueKeySuffix"

\* C16: two payloads that differ only in the insertion order of keys or in
\* members that are null or undefined, at any depth and inside arrays, get
\* the same unique key suffix and the same dict; two payloads whose
\* canonical forms differ are hashed from different texts, and they are
\* exactly the payloads that differ in more than order and null members.
C16_SuffixOfCanonicalForm ==
    Suffixed =>
        LET p == call.input[1]
            q == call.input[2]
        IN /\ SamePayload(p, q) =>
                  /\ call.result.suffix[1] = call.result.suffix[2]
                  /\ call.result.dict[1] = call.result.dict[2]
           /\ call.result.dict[1] # call.result.dict[2] =>
                  call.result.hashed[1] # call.result.hashed[2]
           /\ ~SamePayload(p, q) => call.result.dict[1] # call.result.dict[2]

\* the suffixes of two payloads agree, one listing object before items,
\* name before url and no null member, the other the reverse orders with
\* a null or undefined member inside the array
C16_Witness ==
    /\ Suffixed
    /\ call.input[1] = Obj(<< <<"object", Obj(<< <<"name", Str("x")>>, <<"url", Str("y")>> >>)>>,
                              <<"items", Arr(<<Obj(<< <<"url", Str("x")>> >>)>>)>> >>)
    /\ \E n \in {Null, Undefined} :
          call.input[2]
              = Obj(<< <<"items", Arr(<<Obj(<< <<"url", Str("x")>>, <<"name", n>> >>)>>)>>,
                       <<"object", Obj(<< <<"url", Str("y")>>, <<"name", Str("x")>> >>)>> >>)
    /\ call.result.suffix[1] = call.result.suffix[2]

\* the instant of a raw timestamp under the seconds-or-milliseconds rule
IngestInstant(raw) ==
    MakeDate(IF raw > MAX_SECONDS_EPOCH_G THEN raw ELSE raw * 1000)

\* the records a transform makes rows of, in order
RowRecords ==
    IF call.strategy = "chatgpt"
    THEN SelectSeq(Flatten(call.input), LAMBDA r : r.role \in {"user", "assistant"})
    ELSE Flatten(call.input)

\* the raw timestamp of a record, None when the record has none
RawTimestamp(record) ==
    IF call.strategy = "chatgpt" THEN record.create_time
    ELSE Some(record.creation_timestamp)

\* C17: for ChatGPT create_time and Instagram creation_timestamp alike, a
\* raw timestamp above the seconds ceiling is taken as milliseconds and one
\* at or below it as seconds, in the row's asat and the payload's published.
C17_UniformTimestampHeuristic ==
    Transformed =>
        /\ Len(ResultRows) = Len(RowRecords)
        /\ \A i \in 1..Len(ResultRows) :
              RawTimestamp(RowRecords[i]) # None =>
                  /\ ResultRows[i].asat = Some(IngestInstant(RawTimestamp(RowRecords[i])[1]))
                  /\ ResultRows[i].payload.published
                        = Some(IngestInstant(RawTimestamp(RowRecords[i])[1]))

Extracted == call.pc = "done" /\ call.fn = "extract" /\ call.result.ok

\* the records of the source file that pass the extraction's filters
AcceptedRecords ==
    CASE call.strategy = "chatgpt_conversations" -> ChatGPTRecords(call.input.body)
      [] call.strategy = "instagram_stories" ->
            itemsToRecords(call.input.body, call.task.filenames[1])
      [] OTHER -> itemsToRecords(Flatten(call.input.body), call.task.filenames[1])

\* C18: every batch an extraction strategy returns holds at least 1 and at
\* most 500 records, and the batches, one after the other, are the accepted
\* records of the source file in its order.
C18_BoundedBatches ==
    Extracted =>
        /\ \A b \in 1..Len(call.result.batches) :
              /\ Len(call.result.batches[b]) >= 1
              /\ Len(call.result.batches[b]) <= CHUNK_SIZE
        /\ Flatten(call.result.batches) = AcceptedRecords

\* C19: no record is dropped after extraction: a task ends completed only
\* when every record it extracted became one row, so a record the ChatGPT
\* transform cannot map leaves the task failed.
C19_NoSilentDrop ==
    \A t \in DOMAIN etl_tasks :
        etl_tasks[t].status = "completed" =>
            etl_tasks[t].transformed_count = etl_tasks[t].extracted_count

\* the messages of a conversations.json, in source order
RECURSIVE MessagesOf(_)
MessagesOf(convs) ==
    IF convs = <<>> THEN <<>> ELSE Head(convs).mapping \o MessagesOf(Tail(convs))

\* a message with an author other than system, text content and a first
\* part that is not blank
Emittable(m) ==
    /\ m.author # None /\ m.author[1] # "system"
    /\ m.content_type = Some("text")
    /\ m.parts0 # None /\ m.parts0[1] \notin {"", " "}

\* C20: the ChatGPT extraction emits one record for each message that has
\* an author other than system, text content and a non-blank first part, and
\* none for any other message; the transform makes a SendMessage with
\* object and target of every user record and a ReceiveMessage with object
\* and actor of every assistant record; a conversation of one user, one
\* assistant and one system message gives 2 rows, of kinds SendMessage and
\* ReceiveMessage.
C20_ChatGPTMessageKinds ==
    /\ (Extracted /\ call.strategy = "chatgpt_conversations") =>
          LET records == Flatten(call.result.batches)
              emitted == SelectSeq(MessagesOf(call.input.body), Emittable)
          IN /\ Len(records) = Len(emitted)
             /\ \A i \in 1..Len(records) :
                   /\ records[i].role = emitted[i].author[1]
                   /\ records[i].content = emitted[i].parts0[1]
                   /\ records[i].role # "system"
             /\ call.input = ChatTrio =>
                   [i \in 1..Len(records) |-> records[i].role] = <<"user", "assistant">>
    /\ (Transformed /\ call.strategy = "chatgpt") =>
          /\ Len(ResultRows) = Len(RowRecords)
          /\ \A i \in 1..Len(ResultRows) :
                LET payload == ResultRows[i].payload
                IN /\ payload.object.fibre_kind = "TextMessage"
                   /\ payload.object.content = RowRecords[i].content
                   /\ RowRecords[i].role = "user" =>
                         /\ payload.fibre_kind = "SendMessage"
                         /\ payload.target = Some(CHATGPT_APPLICATION)
                   /\ RowRecords[i].role = "assistant" =>
                         /\ payload.fibre_kind = "ReceiveMessage"
                         /\ payload.actor = Some(CHATGPT_APPLICATION)
          /\ call.input = ChatGPTExtract(ChatTrio).batches =>
                /\ Len(ResultRows) = 2
                /\ {ResultRows[i].payload.fibre_kind : i \in 1..Len(ResultRows)}
                      = {"SendMessage", "ReceiveMessage"}

\* the conversation of one user, one assistant and one system message,
\* extracted and transformed into 2 rows
C20_Witness ==
    /\ Transformed
    /\ call.strategy = "chatgpt"
    /\ call.input = << <<[role |-> "user", content |-> "ping", create_time |-> Some(1),
                          conversation_id |-> Some("c5"), conversation_title |-> Some("Trio"),
                          source |-> Msg("user", "ping", Some(1))],
                         [role |-> "assistant", content |-> "pong", create_time |-> Some(1),
                          conversation_id |-> Some("c5"), conversation_title |-> Some("Trio"),
                          source |-> Msg("assistant", "pong", Some(1))]>> >>
    /\ Len(ResultRows) = 2

\* C21: the row of every Instagram media record is a Create payload whose
\* asset_uri is the archive's prefix followed by the record's uri: the key
\* under which unzip stored the media file.
C21_AssetUriIsBlobKey ==
    \A x \in threads :
        x.provider = "instagram" =>
            /\ x.payload.fibre_kind = "Create"
            /\ x.asset_uri # None
            /\ x.asset_uri[1] = ArchivePrefix(etl_tasks[x.etl_task_id].archive_id)
                                    \o x.payload.object.url

\* unzip has visited every entry of the zip of call r
Unpacked(r) ==
    run[r].pc \notin {"idle", "unzip_open", "rejected"}
    /\ (run[r].pc = "unzip" => run[r].todo = <<>>)

\* the entries of the zip of call r that are not directories
FileEntries(r) ==
    SelectSeq(ZipOf(run[r].zip).entries, LAMBDA e : ~e.dir)

\* C22: once unzip has gone through the zip, every entry that is not a
\* directory has one blob of its own under the archive's prefix, and every
\* blob of the store lies under the prefix of the archive whose zip holds
\* it: none outside the prefixes, none under another archive's prefix.
C22_UnzipArchiveScoped ==
    /\ \A r \in Runs :
          Unpacked(r) =>
              Cardinality({p \in DOMAIN storage :
                              IsPrefixOf(ArchivePrefix(run[r].archiveId), p)})
                  = Len(FileEntries(r))
    /\ \A p \in DOMAIN storage :
          \E r \in Runs :
              /\ run[r].archiveId # ""
              /\ IsPrefixOf(ArchivePrefix(run[r].archiveId), p)
              /\ \E i \in 1..Len(FileEntries(r)) :
                    StoragePath(ArchivePrefix(run[r].archiveId)
                                \o Normalize(FileEntries(r)[i].name)) = p

\* what the database file holds when the process stops: the writes of an
\* open transaction are not in it
CommittedArchives == IF txn.open THEN txn.saved[1] ELSE archives

CommittedTasks == IF txn.open THEN txn.saved[2] ELSE etl_tasks

\* C23: whenever a processArchive call is under way, before the write of the
\* archive's final status, the database file holds the archive in status
\* created, and for every task of the archive in status completed all the
\* rows that were handed to its upload.
C23_InterruptionSafe ==
    \A r \in Runs :
        Active(r) =>
            /\ run[r].archiveId \in DOMAIN CommittedArchives
            /\ CommittedArchives[run[r].archiveId].status = "created"
            /\ \A t \in DOMAIN CommittedTasks :
                  ( /\ CommittedTasks[t].archive_id = run[r].archiveId
                    /\ CommittedTasks[t].status = "completed" )
                  => /\ t \in DOMAIN uploadLog
                     /\ Cardinality({x \in CommittedThreads : x.etl_task_id = t})
                           = uploadLog[t].total

\* a call stopped inside the upload of its second task, rows inserted and
\* not committed, its first task completed with rows
C23_Witness ==
    \E r \in Runs :
        /\ Active(r)
        /\ txn.open
        /\ threads # txn.saved[3]
        /\ \E t \in DOMAIN txn.saved[2] :
              /\ txn.saved[2][t].archive_id = run[r].archiveId
              /\ txn.saved[2][t].status = "completed"
              /\ \E x \in txn.saved[3] : x.etl_task_id = t

\* C24: whenever an archive's status is completed or failed, every EtlTask
\* row of the archive is in status completed or failed, also when database
\* writes fail while a task is running.
C24_AggregationBarrier ==
    \A a \in DOMAIN archives :
        archives[a].status \in TerminalStatus =>
            \A t \in TasksOfArchive(a) : etl_tasks[t].status \in TerminalStatus

\* C25: the rows a transform produces for one task have pairwise distinct
\* unique_key values.
C25_DistinctKeysPerTask ==
    Transformed =>
        \A i \in 1..Len(ResultRows), j \in 1..Len(ResultRows) :
            ResultRows[i].uniqueKey = ResultRows[j].uniqueKey => i = j

\* a text without a character
EmptyText(text) == \A i \in 1..Len(text) : text[i] = ""

\* C26: every row of a transform has a preview that is not empty and a
\* payload with its kind tag: SendMessage or ReceiveMessage in a ChatGPT
\* row, Create in an Instagram row.
C26_PreviewAndKind ==
    Transformed =>
        \A i \in 1..Len(ResultRows) :
            /\ ~EmptyText(ResultRows[i].preview)
            /\ "fibre_kind" \in DOMAIN ResultRows[i].payload
            /\ call.strategy = "chatgpt" =>
                  ResultRows[i].payload.fibre_kind \in {"SendMessage", "ReceiveMessage"}
            /\ call.strategy = "instagram" =>
                  ResultRows[i].payload.fibre_kind = "Create"

\* the rows of a manifest with a media item that has no title
C26_Witness ==
    /\ Transformed
    /\ call.strategy = "instagram"
    /\ \E i \in 1..Len(ResultRows) :
          /\ ResultRows[i].payload.object.name = None
          /\ ResultRows[i].preview = <<"Posted ", "image", " on ", "instagram">>

\* the tasks whose upload has begun a transaction that has not ended
OpenUploads == {t \in DOMAIN uploadLog : uploadLog[t].state = "open"}

\* C27: a transaction is open only between the BEGIN and the COMMIT or
\* ROLLBACK of the upload of a task whose status is uploading; while a
\* transaction is open no task is in status created, extracting or
\* transforming, and the task that opened it is neither completed nor failed.
C27_TransactionOnlyWhileUploading ==
    /\ txn.open <=> OpenUploads # {}
    /\ \A t \in OpenUploads : etl_tasks[t].status = "uploading"
    /\ txn.open =>
          /\ \A t \in DOMAIN etl_tasks :
                etl_tasks[t].status \notin {"created", "extracting", "transforming"}
          /\ \E r \in Runs : /\ run[r].pc \in {"insert", "rollback"}
                              /\ run[r].task.etlTaskId \in OpenUploads
    /\ \A r \in Runs :
          run[r].pc \in {"task_created", "extract", "to_transform", "transform",
                         "to_upload", "begin", "mark_completed", "task_catch"}
          => ~txn.open

\* the transaction of an upload with rows inserted, after an extraction and
\* a transform that ran with no transaction open
C27_Witness ==
    /\ txn.open
    /\ threads # txn.saved[3]
    /\ \E r \in Runs :
          /\ run[r].pc = "insert"
          /\ etl_tasks[run[r].task.etlTaskId].status = "uploading"
          /\ statusWrites[run[r].task.etlTaskId]
                = <<"created", "extracting", "transforming", "uploading">>

\* C28: on either backend, when the function passed to transaction() has
\* thrown, none of the rows it wrote through execute() is in the table and
\* the error reached the caller; when it has returned, all of them are.
C28_TransactionUndoesWrites ==
    (call.pc = "done" /\ call.fn = "transaction") =>
        /\ call.result.outcome = (IF call.input.throws THEN "threw" ELSE "returned")
        /\ call.result.outcome = "threw" =>
              \A i \in 1..Len(call.input.writes) :
                  call.input.writes[i] \notin DOMAIN archives
        /\ call.result.outcome = "returned" =>
              \A i \in 1..Len(call.input.writes) :
                  call.input.writes[i] \in DOMAIN archives

\* C29: a task whose status is failed has no row in the threads table,
\* whichever step failed: extract, transform, upload, or the write of the
\* status and counters after the upload has committed.
C29_FailedTaskLandedNothing ==
    \A t \in DOMAIN etl_tasks :
        etl_tasks[t].status = "failed" => RowsOfTask(t) = {}

\* the calls whose current task's upload holds the open transaction
TxnOwners == {r \in Runs : run[r].task.etlTaskId \in OpenUploads}

Discovered(r) ==
    discoverTasks(getProviderConfig(run[r].provider).orchestration[1],
                  run[r].archiveId, StorageList(storage, <<run[r].archiveId>>))

\* C31: no archive has two EtlTask rows of one interaction type; when
\* processArchive has returned, every descriptor of discovery has exactly one
\* EtlTask row, that row is completed or failed, tasksCompleted + tasksFailed
\* is the number of descriptors and of EtlTask rows of the archive, and
\* errors has tasksFailed entries.
C31_OneTaskPerDescriptor ==
    \A r \in Runs :
        LET a == run[r].archiveId
            rows == TasksOfArchive(a)
        IN /\ run[r].pc # "idle" =>
                \A t1, t2 \in rows :
                    etl_tasks[t1].interaction_type = etl_tasks[t2].interaction_type
                        => t1 = t2
           /\ run[r].pc = "returned" =>
                LET ds == Discovered(r)
                    res == run[r].result
                IN /\ \A i \in 1..Len(ds) :
                         \E t \in rows :
                             /\ etl_tasks[t].interaction_type = ds[i].interactionType
                             /\ etl_tasks[t].status \in TerminalStatus
                   /\ Cardinality(rows) = Len(ds)
                   /\ res.tasksCompleted + res.tasksFailed = Len(ds)
                   /\ Len(res.errors) = res.tasksFailed

\* an Instagram archive with both media files has returned: two descriptors,
\* one task completed and one failed
C31_Witness ==
    \E r \in Runs :
        /\ run[r].pc = "returned"
        /\ Len(Discovered(r)) = 2
        /\ run[r].result.tasksCompleted = 1
        /\ run[r].result.tasksFailed = 1

\* C32: a completed task has uploaded_count = transformed_count = the number
\* of thread rows carrying its id, and transformed_count <= extracted_count;
\* a task that is not completed has its three counters at 0.
C32_CountersOfCompletedTasks ==
    \A t \in DOMAIN etl_tasks :
        IF etl_tasks[t].status = "completed"
        THEN /\ etl_tasks[t].uploaded_count = etl_tasks[t].transformed_count
             /\ etl_tasks[t].transformed_count = Cardinality(RowsOfTask(t))
             /\ etl_tasks[t].transformed_count <= etl_tasks[t].extracted_count
        ELSE /\ etl_tasks[t].extracted_count = 0
             /\ etl_tasks[t].transformed_count = 0
             /\ etl_tasks[t].uploaded_count = 0

\* a task completed with fewer rows than records, beside a task that failed
\* after its extraction
C32_Witness ==
    /\ \E t \in DOMAIN etl_tasks :
          /\ etl_tasks[t].status = "completed"
          /\ etl_tasks[t].transformed_count > 0
          /\ etl_tasks[t].extracted_count > etl_tasks[t].transformed_count
    /\ \E t \in DOMAIN etl_tasks :
          /\ etl_tasks[t].status = "failed"
          /\ Entered(t, "transforming")

\* the records of a transform call as one batch
OneBatch(batches) == IF Flatten(batches) = <<>> THEN <<>> ELSE <<Flatten(batches)>>

\* a thread row without its generated id
RowBody(x) == [x EXCEPT !.id = ""]

\* C33: however the records are grouped into batches, transform gives the
\* rows it gives for the same records in one batch, in the same order and
\* with no empty batch, or fails as it does there; upload of the result
\* inserts exactly those rows and returns their number, or fails as the
\* upload of those rows fails.
C33_BatchBoundariesCarryNoMeaning ==
    LET whole == StrategyTransform(call.strategy, call.task, OneBatch(call.input))
        rows == Flatten(whole.batches)
    IN /\ call.pc \in {"done", "upload"} =>
            /\ call.result.ok = whole.ok
            /\ call.result.cause = whole.cause
            /\ Flatten(call.result.batches) = rows
            /\ \A i \in 1..Len(call.result.batches) : call.result.batches[i] # <<>>
       /\ run[1].pc = "mark_completed" =>
            /\ run[1].total = Len(rows)
            /\ Cardinality(threads) = Len(rows)
            /\ {RowBody(x) : x \in threads}
                 = {RowBody(y) : y \in UNION {InsertThread({}, "", call.task, rows[i]) :
                                                 i \in 1..Len(rows)}}
       /\ run[1].pc = "task_catch" =>
            /\ threads = {}
            /\ \E i, j \in 1..Len(rows) : i < j /\ rows[i].uniqueKey = rows[j].uniqueKey

\* three records, one per batch, gave two batches of one row, and the upload
\* of the two rows has returned
C33_Witness ==
    /\ call.pc = "upload"
    /\ Len(call.input) = 3
    /\ Len(call.result.batches) = 2
    /\ run[1].pc = "mark_completed"
    /\ run[1].total = 2

\* C34: an Archive row is inserted as created, is never deleted, changes
\* only from created to completed or failed, and is never changed once it
\* is completed or failed.
C34_ArchiveImmutableOnceTerminal ==
    [][/\ \A a \in DOMAIN archives :
             /\ a \in DOMAIN archives'
             /\ archives[a].status \in TerminalStatus => archives'[a] = archives[a]
             /\ archives'[a].status \in {"created"} \cup TerminalStatus
       /\ \A a \in DOMAIN archives' \ DOMAIN archives :
             archives'[a].status = "created"]_vars

\* one call has thrown on the archive-fatal path and left its archive failed,
\* another has returned and left its archive completed
C34_Witness ==
    \E r1, r2 \in Runs :
        /\ run[r1].pc = "rejected"
        /\ run[r1].archiveId \in DOMAIN archives
        /\ archives[run[r1].archiveId].status = "failed"
        /\ run[r2].pc = "returned"
        /\ archives[run[r2].archiveId].status = "completed"

\* C35: the preview of a text message is `message "` and `"` around the
\* content itself when it has at most 100 characters, and around its first
\* 100 characters followed by "..." when it has more; the embedded text
\* has at most 103 characters.
C35_PreviewTruncatedAt100 ==
    (call.fn = "getTextMessagePreview" /\ call.pc = "done") =>
        LET content == call.input
            embedded == call.result[2]
        IN /\ Len(call.result) = 3
           /\ call.result[1] = "message \""
           /\ call.result[3] = "\""
           /\ Len(content) <= 100 => embedded = content
           /\ Len(content) > 100 => embedded = SubSeq(content, 1, 100) \o "..."
           /\ Len(embedded) <= 103

\* the preview of a content of 101 characters has been returned
C35_Witness ==
    /\ call.fn = "getTextMessagePreview"
    /\ call.pc = "done"
    /\ Len(call.input) = 101
    /\ Len(call.result[2]) = 103

\* C36: makeThreadPayload throws for a dict whose fibre_kind is missing or
\* is not a tag of the union, and returns the payload otherwise.
C36_UnknownTagRejected ==
    (call.fn = "makeThreadPayload" /\ call.pc = "done") =>
        LET tagged == /\ call.input.fibre_kind # None
                      /\ call.input.fibre_kind[1] \in FibreKinds
        IN call.result.threw = ~tagged

\* the records the caller of extract has received
Received ==
    IF call.result.settled = None THEN 0 ELSE SumLen(call.result.settled[1].batches)

\* C37: while the ChatGPT extraction parses a file of more than one
\* conversation it never holds the whole file in memory, and the caller has
\* received every record whose parsing is complete.
C37_StreamedUnderBoundedMemory ==
    call.pc = "parsing" =>
        /\ Len(call.input.body) > 1 => call.result.held < Len(call.input.body)
        /\ Received = SumLen(call.result.batches) + Len(call.result.chunk)

\* the step by step extraction returns what ChatGPTExtract returns
StreamAgreesWithExtract ==
    call.pc = "done" => call.result.settled[1] = ChatGPTExtract(call.input)

====
